---- MODULE Spec2Model ----
(***************************************************************************)
(* MP3-Service intake pipeline: polling cycles (AudioProcessor.process_all),*)
(* filesystem-event handlers (AudioFileHandler), the distribution steps of *)
(* AudioProcessor.process_file and the copied-list ledger of FileHandler.   *)
(*                                                                         *)
(* Threads: 0 is the main thread (initial pass, polling loop); 1..NumHandlers*)
(* are invocations of the event handler running in the dispatch context.   *)
(* The filesystem (watched root, local and network destination, ledger     *)
(* file) survives a restart; everything else is per process.               *)
(***************************************************************************)
EXTENDS Integers, Sequences, FiniteSets, TLC

\* ---- bounds of the model ----
NumHandlers     == 2  \* handler invocations that may be in progress at once
MaxCycles       == 2  \* process_all runs
MaxDisturbances == 2  \* things the environment does: a file is created or
                      \* written to by another program, an I/O operation on an
                      \* existing file raises, the process is terminated and
                      \* started again
MaxTempo        == 200 \* largest tempo the estimator reports
MaxStem         == 5   \* characters in the stem of a file name
MaxCalls        == 3   \* calls of clean_filename by one process
MaxWait         == 4   \* the timeout of _wait_for_file_ready, in seconds
MaxSleep        == 3   \* config.poll_interval, in seconds

\* ---- the watched root ----
\* Two files that normalize to the same output name (one directly in the
\* root, one in a subdirectory) and one whose extension is supported only by
\* a non-default configuration.
Paths == {"in/Song.mp3", "in/sub/Song.mp3", "in/sub/Tune.ogg"}

None == "none"

\* None where an Optional[int] is expected
NoBpm == -1

\* base_path / self.copied_list_file
LedgerPath == "in/copiedList.txt"

\* file_path.suffix.lower()
Suffix(p) ==
  IF p = "in/sub/Tune.ogg" THEN ".ogg"
  ELSE IF p = LedgerPath THEN ".txt" ELSE ".mp3"

\* the file lies in an immediate subdirectory of the watched root
InSubdir(p) == p \in {"in/sub/Song.mp3", "in/sub/Tune.ogg"}

\* Config.supported_extensions: the default tuple, and a configured one
DefaultExtensions == {".mp3", ".m4a", ".wav", ".aif", ".aiff", ".flac"}
ConfiguredExtensions == {DefaultExtensions, DefaultExtensions \cup {".ogg"}}

\* the literal list of FileHandler.remove_empty_directories
JanitorKeeps == {".mp3", ".m4a", ".wav", ".aif", ".aiff", ".flac", ".txt"}

\* AudioProcessor._get_output_filename: the normalized name of a source file
OutputFilename(p) == IF p = "in/sub/Tune.ogg" THEN "Tune.ogg" ELSE "Song.mp3"

OutputNames == {OutputFilename(p) : p \in Paths}

\* a name in the local destination: <<output name, k>>, k = 1 for "stem_1.ext"
LocalNames == OutputNames \X {0, 1}

\* no destination chosen yet
NoDest == <<None, 0>>

Main == 0
Handlers == 1..NumHandlers
Threads == {Main} \cup Handlers

VARIABLES
  watch,                \* MP3Service.watch: event mode instead of polling
  dry_run,              \* AudioProcessor.dry_run
  include_share,        \* config.include_share and config.network_path
  supported_extensions, \* config.supported_extensions
  reAccepts,            \* the re engine compiles every entry of PATTERNS
  base,                 \* files present in the watched root
  localDir,             \* local destination: name -> source it was copied from
  networkDir,           \* network destination: name -> source of its content
  ledgerFile,           \* lines of copiedList.txt
  copied_files,         \* AudioProcessor.copied_files
  fh_copied_files,      \* FileHandler.copied_files
  processing,           \* AudioFileHandler.processing
  stats,                \* AudioProcessor.stats
  pending,              \* events emitted and not yet dispatched, per path
  pc,                   \* position of each thread
  cur,                  \* file_path of the process_file / handler of a thread
  dest,                 \* destination chosen by copy_file of a thread
  audio_files,          \* files of the list process_all has not reached yet
  \* ---- history, not program state ----
  copyOk,               \* copy_file of the thread's process_file returned True
  failed,               \* a distribution step of the thread's process_file failed
  attempts,             \* process_file invocations by handlers for a path
                        \* since its current burst of events began
  copyCount,            \* successful local copies of the file now at a path
  tagged,               \* paths whose file had a tag written or cleared by
                        \* the program
  cycles,               \* completed process_all runs
  drops,                \* files created by other programs so far
  restarts,             \* restarts so far
  disturbances,         \* steps of the environment so far
  loaded,               \* load_copied_list of this lifetime read the ledger file
  atBoot,               \* paths in the ledger file when this lifetime started
  atStart               \* candidates in the watched root when this lifetime started

config == <<watch, dry_run, include_share, supported_extensions, reAccepts>>
disk   == <<base, localDir, networkDir, ledgerFile>>
memory == <<copied_files, fh_copied_files, processing, stats>>
ctl    == <<pc, cur, dest, audio_files>>
hist   == <<copyOk, failed, attempts, copyCount, tagged, cycles, drops, restarts,
            disturbances, loaded, atBoot, atStart>>

\* ---- one call of _process_bpm, examined on its own ----
VARIABLES
  suffix,               \* file_path.suffix.lower() of the file processed
  current_bpm,          \* the BPM read from the tags by get_tags, or None
  detected_bpm,         \* what detect_bpm returns for the file, or None
  bpm_range,            \* config.bpm_range, <<min, max>>
  bpc,                  \* position of the call
  corrected_bpm,        \* result of get_corrected_bpm, once computed
  bpm,                  \* the local bpm of process_file
  bpmWrites,            \* values passed to set_tags(bpm=...), in order
  detectCalls           \* calls of detect_bpm

bpmCall == <<suffix, current_bpm, detected_bpm, bpm_range, bpc, corrected_bpm,
             bpm, bpmWrites, detectCalls>>

\* ---- the filename steps of one call of process_file, examined on their own
VARIABLES
  stem,                 \* Path(file_path.name).stem, a sequence of characters
  tagArtist,            \* the artist get_tags returned, or NoText
  tagTitle,             \* the title get_tags returned, or NoText
  artist,               \* the local artist of process_file
  title,                \* the local title of process_file
  parsed,               \* what extract_from_filename returned, once called
  npc,                  \* position of the call
  tagWrites,            \* set_tags calls, in order: <<field, value>>
  clears,               \* calls of clear_extra_tags
  file_suffix,          \* file_path.suffix, a sequence of characters
  candidate,            \* the name _get_output_filename passed to clean_filename
  output_filename       \* what _get_output_filename returned, or Raised

nameCall == <<stem, tagArtist, tagTitle, artist, title, parsed, npc,
              tagWrites, clears, file_suffix, candidate, output_filename>>

\* ---- repeated calls of clean_filename, examined on their own ----
VARIABLES
  firstOutput,          \* what the first call with the examined input returned
  cleanCalls,           \* calls of clean_filename so far
  ledgerAt              \* history: lines of the ledger file at the first call
                        \* with the examined input and at the last call

cleanCall == <<firstOutput, cleanCalls, ledgerAt>>

\* ---- one call of _wait_for_file_ready by a handler, examined on its own
VARIABLES
  last_size,            \* the local last_size
  wait_time,            \* the local wait_time
  wpc,                  \* position of the handler
  warnings,             \* timeout warnings logged
  processCalls,         \* calls of process_file by the handler
  seen,                 \* history: kinds of outcome the size checks had
  samples               \* history: the two latest sizes stat() returned

waitCall == <<last_size, wait_time, wpc, warnings, processCalls, seen,
              samples>>

\* ---- a shutdown signal in event mode, examined on its own ----
VARIABLES
  mpc,                  \* position of the main thread in _start_watching
  spc,                  \* position of _signal_handler on the main thread
  running,              \* MP3Service.running
  opc,                  \* position of the observer thread, "none" while
                        \* FileWatcher.observer is None
  stopFlag,             \* Observer.stop() was called
  queue,                \* events queued for dispatch
  stopped               \* history: stop() has called watcher.stop()

stopCall == <<mpc, spc, running, opc, stopFlag, queue, stopped>>

\* ---- the polling loop and a shutdown signal, examined on their own ----
VARIABLES
  slept,                \* seconds of the inter-cycle sleep that have elapsed
  left                  \* files the pass in progress has not reached yet

pollCall == <<slept, left>>

\* ---- concurrent appends to copiedList.txt, examined on their own ----
VARIABLES
  listText,             \* the characters of copiedList.txt
  apc,                  \* position of each handler in update_copied_list
  apath,                \* file_path of each handler's call
  wbuf,                 \* characters held by each handler's file object
  appended              \* history: paths whose write reached the file

appendCall == <<listText, apc, apath, wbuf, appended>>

\* ---- the two discovery filters applied to one path, examined on their own
VARIABLES
  fname,                \* the name of the path, a sequence of characters
  is_directory,         \* the path is a directory
  caseFolds,            \* the platform matches glob patterns ignoring case
  fpc,                  \* the filters that have been applied to the path
  discovered,           \* times get_audio_files returned the path
  admitted              \* the event handlers called that reached line 74

filterCall == <<fname, is_directory, caseFolds, fpc, discovered, admitted>>

\* ---- one call of remove_empty_directories, examined on its own ----
VARIABLES
  rootFiles,            \* names of the files directly in the watched root
  subFiles,             \* names of the files in the subdirectory
  nested,               \* the subdirectory holds a directory of its own
  subExists,            \* the subdirectory exists
  jpc,                  \* position of the call
  rootTodo,             \* entries of the root the outer loop has not reached
  subTodo,              \* files the inner loop has not reached
  unlinked              \* history: names the call has unlinked

janitorCall == <<rootFiles, subFiles, nested, subExists, jpc, rootTodo,
                 subTodo, unlinked>>

later  == <<filterCall, janitorCall>>
rest   == <<waitCall, stopCall, pollCall, appendCall, later>>
calls  == <<bpmCall, nameCall, cleanCall, rest>>
notBpm == <<nameCall, cleanCall, rest>>
notName == <<bpmCall, cleanCall, rest>>
notClean == <<bpmCall, rest>>
vars   == <<config, disk, memory, ctl, hist, pending, calls>>

Range(s) == {s[i] : i \in DOMAIN s}

\* occurrences of path p among the lines of the ledger file
Lines(s, p) == Cardinality({i \in DOMAIN s : s[i] = p})

ZeroStats == [processed |-> 0, errors |-> 0, skipped |-> 0]

\* load_copied_list that never reads the file
load_copied_list_Empty(file, readOk) == {}

\* FileHandler.load_copied_list: the set of non-blank stripped lines, or the
\* empty set when reading the file raises
load_copied_list(file, readOk) == IF readOk THEN Range(file) ELSE {}

\* None where an Optional[str] is expected
NoText == <<"None">>

\* the filename steps of no call are under examination
NameIdle ==
  /\ stem = << >>
  /\ tagArtist = NoText
  /\ tagTitle = NoText
  /\ artist = NoText
  /\ title = NoText
  /\ parsed = <<NoText, NoText>>
  /\ npc = "idle"
  /\ tagWrites = << >>
  /\ clears = 0
  /\ file_suffix = << >>
  /\ candidate = NoText
  /\ output_filename = NoText

\* no call of _wait_for_file_ready is under examination
WaitIdle ==
  /\ last_size = -1
  /\ wait_time = 0
  /\ wpc = "idle"
  /\ warnings = 0
  /\ processCalls = 0
  /\ seen = {}
  /\ samples = <<>>

\* no shutdown is under examination
StopIdle ==
  /\ mpc = "idle"
  /\ spc = "none"
  /\ running = TRUE
  /\ opc = "none"
  /\ stopFlag = FALSE
  /\ queue = 0
  /\ stopped = FALSE

\* no polling loop is under examination
PollIdle ==
  /\ slept = 0
  /\ left = 0

\* no ledger append is under examination
AppendIdle ==
  /\ listText = << >>
  /\ apc = [h \in Handlers |-> "idle"]
  /\ apath = [h \in Handlers |-> << >>]
  /\ wbuf = [h \in Handlers |-> << >>]
  /\ appended = {}

\* no path is under examination by the filters
FilterIdle ==
  /\ fname = << >>
  /\ is_directory = FALSE
  /\ caseFolds = FALSE
  /\ fpc = {"idle"}
  /\ discovered = 0
  /\ admitted = {}

\* no call of remove_empty_directories is under examination
JanitorIdle ==
  /\ rootFiles = {}
  /\ subFiles = {}
  /\ nested = FALSE
  /\ subExists = FALSE
  /\ jpc = "idle"
  /\ rootTodo = {}
  /\ subTodo = {}
  /\ unlinked = {}

LaterIdle == FilterIdle /\ JanitorIdle

RestIdle == WaitIdle /\ StopIdle /\ PollIdle /\ AppendIdle /\ LaterIdle

\* no sequence of clean_filename calls is under examination
CleanIdle ==
  /\ firstOutput = NoText
  /\ cleanCalls = 0
  /\ ledgerAt = <<0, 0>>

\* no call of _process_bpm is under examination
BpmIdle ==
  /\ suffix = ".mp3"
  /\ current_bpm = NoBpm
  /\ detected_bpm = NoBpm
  /\ bpm_range = <<65, 135>>
  /\ bpc = "idle"
  /\ corrected_bpm = NoBpm
  /\ bpm = NoBpm
  /\ bpmWrites = << >>
  /\ detectCalls = 0

Init ==
  /\ RestIdle
  /\ BpmIdle
  /\ NameIdle
  /\ CleanIdle
  /\ watch \in BOOLEAN
  /\ dry_run \in BOOLEAN
  /\ include_share \in BOOLEAN
  /\ supported_extensions \in ConfiguredExtensions
  /\ reAccepts \in BOOLEAN
  /\ base \in SUBSET Paths
  /\ localDir = [n \in LocalNames |-> None]
  /\ networkDir = [n \in OutputNames |-> None]
  /\ ledgerFile = << >>
  /\ copied_files = load_copied_list(ledgerFile, TRUE)
  /\ fh_copied_files = {}
  /\ processing = {}
  /\ stats = ZeroStats
  /\ pending = [p \in Paths |-> 0]
  /\ pc = [t \in Threads |-> IF t = Main THEN "start" ELSE "h_idle"]
  /\ cur = [t \in Threads |-> None]
  /\ dest = [t \in Threads |-> NoDest]
  /\ audio_files = {}
  /\ copyOk = [t \in Threads |-> FALSE]
  /\ failed = [t \in Threads |-> FALSE]
  /\ attempts = [p \in Paths |-> 0]
  /\ copyCount = [p \in Paths |-> 0]
  /\ tagged = {}
  /\ cycles = 0
  /\ drops = 0
  /\ restarts = 0
  /\ disturbances = 0
  /\ loaded = TRUE
  /\ atBoot = {}
  /\ atStart = {p \in base : Suffix(p) \in supported_extensions}


\* ---------------------------------------------------------------------------
\* AudioProcessor.process_all
\* ---------------------------------------------------------------------------

\* FileHandler.remove_empty_directories: the files it unlinks
JanitorRemoves(files) == {p \in files : InSubdir(p) /\ Suffix(p) \notin JanitorKeeps}

\* FileHandler.get_audio_files: the files the recursive scan returns
get_audio_files(files, extensions) == {p \in files : Suffix(p) \in extensions}

\* process_file without its except clause: what a step raised leaves
\* process_all and is caught by the polling loop
ReturnPoint_Escapes(t) ==
  IF t = Main /\ (failed[t] \/ ~reAccepts) THEN "sleep"
  ELSE IF t = Main THEN "pa_loop" ELSE "h_finally"

\* where process_file returns to
ReturnPoint(t) == IF t = Main THEN "pa_loop" ELSE "h_finally"

\* process_all whose Janitor runs in a dry run as well
ProcessAllStart_JanitorAlways ==
  /\ \/ pc[Main] = "start"
     \/ pc[Main] = "sleep" /\ ~watch
  /\ cycles < MaxCycles
  /\ base' = base \ JanitorRemoves(base)
  /\ ledgerFile' = IF LedgerPath \in JanitorRemoves({LedgerPath})
                     THEN << >> ELSE ledgerFile
  /\ audio_files' = get_audio_files(base', supported_extensions)
  /\ stats' = ZeroStats
  /\ pc' = [pc EXCEPT ![Main] = "pa_loop"]
  /\ UNCHANGED <<calls, config, localDir, networkDir, copied_files,
                 fh_copied_files, processing, cur, dest, hist, pending>>

\* lines 49-71: reset of the statistics, Janitor (which unlinks what it
\* removes, copiedList.txt included were it among them), discovery
ProcessAllStart ==
  /\ \/ pc[Main] = "start"
     \/ pc[Main] = "sleep" /\ ~watch
  /\ cycles < MaxCycles
  /\ base' = IF dry_run THEN base ELSE base \ JanitorRemoves(base)
  /\ ledgerFile' = IF ~dry_run /\ LedgerPath \in JanitorRemoves({LedgerPath})
                     THEN << >> ELSE ledgerFile
  /\ audio_files' = get_audio_files(base', supported_extensions)
  /\ stats' = ZeroStats
  /\ pc' = [pc EXCEPT ![Main] = "pa_loop"]
  /\ UNCHANGED <<calls, config, localDir, networkDir, copied_files,
                 fh_copied_files, processing, cur, dest, hist, pending>>

\* lines 74-76: the next file of the list (in the order the filesystem
\* enumerated it) is not in copied_files, process_file is called
ProcessAllNext(p) ==
  /\ pc[Main] = "pa_loop"
  /\ p \in audio_files
  /\ p \notin copied_files
  /\ audio_files' = audio_files \ {p}
  /\ cur' = [cur EXCEPT ![Main] = p]
  /\ pc' = [pc EXCEPT ![Main] = "pf_resolve"]
  /\ UNCHANGED <<calls, config, disk, memory, dest, hist, pending>>

\* lines 77-78: the next file is in copied_files
ProcessAllSkip(p) ==
  /\ pc[Main] = "pa_loop"
  /\ p \in audio_files
  /\ p \in copied_files
  /\ audio_files' = audio_files \ {p}
  /\ stats' = [stats EXCEPT !.skipped = @ + 1]
  /\ UNCHANGED <<calls, config, disk, copied_files, fh_copied_files, processing,
                 pc, cur, dest, hist, pending>>

\* main.py that starts the watcher after a pass in polling mode as well
ProcessAllReturn_AlwaysWatches ==
  /\ pc[Main] = "pa_loop"
  /\ audio_files = {}
  /\ pc' = [pc EXCEPT ![Main] = "watching"]
  /\ cycles' = cycles + 1
  /\ UNCHANGED <<calls, config, disk, memory, cur, dest, audio_files, copyOk, failed,
                 attempts, copyCount, tagged, drops, restarts, disturbances, loaded,
                 atBoot, atStart, pending>>

\* line 80: the cycle returns its statistics; main.py goes to the polling
\* sleep, or starts the watcher and idles
ProcessAllReturn ==
  /\ pc[Main] = "pa_loop"
  /\ audio_files = {}
  /\ pc' = [pc EXCEPT ![Main] = IF watch THEN "watching" ELSE "sleep"]
  /\ cycles' = cycles + 1
  /\ UNCHANGED <<calls, config, disk, memory, cur, dest, audio_files, copyOk, failed,
                 attempts, copyCount, tagged, drops, restarts, disturbances, loaded,
                 atBoot, atStart, pending>>

\* ---------------------------------------------------------------------------
\* AudioProcessor.process_file, run by thread t
\* ---------------------------------------------------------------------------

\* process_file returns to its caller
Return(t) ==
  /\ pc' = [pc EXCEPT ![t] = ReturnPoint(t)]
  /\ cur' = [cur EXCEPT ![t] = IF t = Main THEN None ELSE @]
  /\ dest' = [dest EXCEPT ![t] = NoDest]
  /\ copyOk' = [copyOk EXCEPT ![t] = FALSE]
  /\ failed' = [failed EXCEPT ![t] = FALSE]

\* the files whose embedded tags are incomplete: get_tags returns no artist
\* or no title for them, extract_from_filename supplies one
LacksTags(p) == p = "in/sub/Song.mp3"

\* lines 89-129, and for a dry run lines 226-230 and 138-139.  The metadata
\* steps catch their own errors; outside a dry run they write the tempo, the
\* artist or the title and clear the secondary tags when the file lacks them
\* (lines 105-126), see LacksTags.  clean_filename
\* then raises re.error when the re engine rejects an entry of PATTERNS,
\* which lands in the handler of line 141.
PfResolve(t) ==
  /\ pc[t] = "pf_resolve"
  /\ tagged' = IF ~dry_run /\ LacksTags(cur[t]) /\ cur[t] \in base
                 THEN tagged \cup {cur[t]} ELSE tagged
  /\ IF ~reAccepts
       THEN /\ stats' = [stats EXCEPT !.errors = @ + 1]
            /\ Return(t)
       ELSE IF dry_run
         THEN /\ stats' = [stats EXCEPT !.processed = @ + 1]
              /\ Return(t)
         ELSE /\ stats' = stats
              /\ pc' = [pc EXCEPT ![t] = "pf_copy"]
              /\ UNCHANGED <<cur, dest, copyOk, failed>>
  /\ UNCHANGED <<calls, config, disk, copied_files, fh_copied_files, processing,
                 audio_files, attempts, copyCount, cycles, drops,
                 restarts, disturbances, loaded, atBoot, atStart, pending>>

\* copy_file lines 137-146: the destination, suffixed when the name is taken
CopyDestination(dir, name) == IF dir[<<name, 0>>] # None THEN <<name, 1>> ELSE <<name, 0>>

PfCopyCheck(t) ==
  /\ pc[t] = "pf_copy"
  /\ dest' = [dest EXCEPT ![t] = CopyDestination(localDir, OutputFilename(cur[t]))]
  /\ pc' = [pc EXCEPT ![t] = "pf_copy2"]
  /\ UNCHANGED <<calls, config, disk, memory, cur, audio_files, hist, pending>>

\* copy_file lines 148-150: shutil.copy2 wrote the destination
PfCopyOk(t) ==
  /\ pc[t] = "pf_copy2"
  /\ cur[t] \in base
  /\ localDir' = [localDir EXCEPT ![dest[t]] = cur[t]]
  /\ copyOk' = [copyOk EXCEPT ![t] = TRUE]
  /\ copyCount' = [copyCount EXCEPT ![cur[t]] = @ + 1]
  /\ tagged' = tagged
  /\ pc' = [pc EXCEPT ![t] = "pf_delete"]
  /\ UNCHANGED <<calls, config, base, networkDir, ledgerFile, memory, cur, dest,
                 audio_files, failed, attempts, cycles, drops, restarts,
                 disturbances, loaded, atBoot, atStart, pending>>

\* _copy_to_destinations that ignores the result of copy_file
PfCopyFail_IgnoresResult(t) ==
  /\ pc[t] = "pf_copy2"
  /\ cur[t] \in base => disturbances < MaxDisturbances
  /\ disturbances' = disturbances + (IF cur[t] \in base THEN 1 ELSE 0)
  /\ failed' = [failed EXCEPT ![t] = TRUE]
  /\ pc' = [pc EXCEPT ![t] = "pf_delete"]
  /\ UNCHANGED <<calls, config, disk, memory, cur, dest, audio_files, copyOk,
                 attempts, copyCount, tagged, cycles, drops, restarts, loaded,
                 atBoot, atStart, pending>>

\* copy_file lines 152-154: the copy raised (source gone, I/O error); copy_file
\* returns False and _copy_to_destinations does nothing more
PfCopyFail(t) ==
  /\ pc[t] = "pf_copy2"
  /\ cur[t] \in base => disturbances < MaxDisturbances
  /\ disturbances' = disturbances + (IF cur[t] \in base THEN 1 ELSE 0)
  /\ failed' = [failed EXCEPT ![t] = TRUE]
  /\ pc' = [pc EXCEPT ![t] = "pf_ledger"]
  /\ UNCHANGED <<calls, config, disk, memory, cur, dest, audio_files, copyOk,
                 attempts, copyCount, tagged, cycles, drops, restarts, loaded,
                 atBoot, atStart, pending>>

\* line 234, delete_file: the unlink succeeds, or raises and is logged
PfDelete(t) ==
  /\ pc[t] = "pf_delete"
  /\ \/ /\ cur[t] \in base
        /\ base' = base \ {cur[t]}
        /\ UNCHANGED <<failed, disturbances>>
     \/ /\ cur[t] \in base => disturbances < MaxDisturbances
        /\ disturbances' = disturbances + (IF cur[t] \in base THEN 1 ELSE 0)
        /\ base' = base
        /\ failed' = [failed EXCEPT ![t] = TRUE]
  /\ pc' = [pc EXCEPT ![t] = IF include_share THEN "pf_net" ELSE "pf_ledger"]
  /\ UNCHANGED <<calls, config, localDir, networkDir, ledgerFile, memory, cur, dest,
                 audio_files, copyOk, attempts, copyCount, tagged, cycles,
                 drops, restarts, loaded, atBoot, atStart, pending>>

\* lines 237-239, copy_to_network(local_dest, network_path): the source is
\* the unsuffixed local path, the destination carries the same name
PfNetwork(t) ==
  /\ pc[t] = "pf_net"
  /\ LET name == OutputFilename(cur[t])
     IN \/ \* the network path does not exist, or the copy raised
           /\ disturbances < MaxDisturbances
           /\ disturbances' = disturbances + 1
           /\ networkDir' = networkDir
           /\ failed' = [failed EXCEPT ![t] = TRUE]
        \/ \* a file of that name is already there
           /\ networkDir[name] # None
           /\ UNCHANGED <<networkDir, failed, disturbances>>
        \/ \* published
           /\ networkDir[name] = None
           /\ localDir[<<name, 0>>] # None
           /\ networkDir' = [networkDir EXCEPT ![name] = localDir[<<name, 0>>]]
           /\ UNCHANGED <<failed, disturbances>>
  /\ pc' = [pc EXCEPT ![t] = "pf_ledger"]
  /\ UNCHANGED <<calls, config, base, localDir, ledgerFile, memory, cur, dest,
                 audio_files, copyOk, attempts, copyCount, tagged, cycles,
                 drops, restarts, loaded, atBoot, atStart, pending>>

\* update_copied_list that opens the file for writing, not for appending
update_copied_list_Truncating(file, set, p) == << <<p>>, set \cup {p}>>

\* FileHandler.update_copied_list: one line appended to the file, then the
\* path added to the FileHandler's own set
update_copied_list(file, set, p) == <<Append(file, p), set \cup {p}>>

\* lines 135-139: the ledger append (or its logged failure) and the count
PfLedger(t) ==
  /\ pc[t] = "pf_ledger"
  /\ \/ /\ ledgerFile' = update_copied_list(ledgerFile, fh_copied_files, cur[t])[1]
        /\ fh_copied_files' = update_copied_list(ledgerFile, fh_copied_files, cur[t])[2]
        /\ disturbances' = disturbances
     \/ /\ disturbances < MaxDisturbances
        /\ disturbances' = disturbances + 1
        /\ ledgerFile' = ledgerFile
        /\ fh_copied_files' = fh_copied_files
  /\ stats' = [stats EXCEPT !.processed = @ + 1]
  /\ Return(t)
  /\ UNCHANGED <<calls, config, base, localDir, networkDir, copied_files, processing,
                 audio_files, attempts, copyCount, tagged, cycles, drops,
                 restarts, loaded, atBoot, atStart, pending>>

\* ---------------------------------------------------------------------------
\* AudioFileHandler: one invocation per dispatched event, thread h
\* ---------------------------------------------------------------------------

\* on_created: the suffix is a supported one
on_created(p) == Suffix(p) \in supported_extensions

\* on_modified: the suffix is a supported one and the path is not in the
\* processor's copied_files
on_modified(p) == Suffix(p) \in supported_extensions /\ p \notin copied_files

\* _process_file_with_delay lines 62-72: not in processing, not in copied_files
PassesChecks(p) == p \notin processing /\ p \notin copied_files

EventKinds == {"created", "modified"}

Accepts(kind, p) ==
  /\ IF kind = "created" THEN on_created(p) ELSE on_modified(p)
  /\ PassesChecks(p)

\* the invocation an event is dispatched to: handler invocations are
\* interchangeable, the lowest idle one is taken
Dispatches(h) ==
  /\ pc[Main] = "watching"
  /\ pc[h] = "h_idle"
  /\ \A g \in Handlers : g < h => pc[g] # "h_idle"

\* an event is dispatched and passes every check up to line 72
DispatchAccept(h, p) ==
  /\ Dispatches(h)
  /\ pending[p] > 0
  /\ \E kind \in EventKinds : Accepts(kind, p)
  /\ pending' = [pending EXCEPT ![p] = @ - 1]
  /\ cur' = [cur EXCEPT ![h] = p]
  /\ pc' = [pc EXCEPT ![h] = "h_add"]
  /\ UNCHANGED <<calls, config, disk, memory, dest, audio_files, hist>>

\* an event is dispatched and the handler returns at line 45, 64 or 72
DispatchSkip(h, p) ==
  /\ Dispatches(h)
  /\ pending[p] > 0
  /\ \E kind \in EventKinds : ~Accepts(kind, p)
  /\ pending' = [pending EXCEPT ![p] = @ - 1]
  /\ UNCHANGED <<calls, config, disk, memory, ctl, hist>>

\* line 75
HandlerAdd(h) ==
  /\ pc[h] = "h_add"
  /\ processing' = processing \cup {cur[h]}
  /\ pc' = [pc EXCEPT ![h] = "h_wait"]
  /\ UNCHANGED <<calls, config, disk, copied_files, fh_copied_files, stats, cur, dest,
                 audio_files, hist, pending>>

\* lines 78-83: _wait_for_file_ready returned (size stable, or timeout) and
\* process_file is called
HandlerProcess(h) ==
  /\ pc[h] = "h_wait"
  /\ pc' = [pc EXCEPT ![h] = "pf_resolve"]
  /\ attempts' = [attempts EXCEPT ![cur[h]] = @ + 1]
  /\ UNCHANGED <<calls, config, disk, memory, cur, dest, audio_files, copyOk, failed,
                 copyCount, tagged, cycles, drops, restarts, disturbances, loaded,
                 atBoot, atStart, pending>>

\* a handler that ends without the finally block
HandlerFinally_NoRemove(h) ==
  /\ pc[h] = "h_finally"
  /\ pc' = [pc EXCEPT ![h] = "h_idle"]
  /\ cur' = [cur EXCEPT ![h] = None]
  /\ UNCHANGED <<calls, config, disk, memory, dest, audio_files, hist, pending>>

\* lines 87-89
HandlerFinally(h) ==
  /\ pc[h] = "h_finally"
  /\ processing' = processing \ {cur[h]}
  /\ pc' = [pc EXCEPT ![h] = "h_idle"]
  /\ cur' = [cur EXCEPT ![h] = None]
  /\ UNCHANGED <<calls, config, disk, copied_files, fh_copied_files, stats, dest,
                 audio_files, hist, pending>>

\* ---------------------------------------------------------------------------
\* Environment
\* ---------------------------------------------------------------------------

Watching == pc[Main] = "watching"

\* no event for p is pending and no handler invocation is working on p: the
\* next event for p begins a new burst
Quiet(p) == pending[p] = 0 /\ \A h \in Handlers : cur[h] # p

Emit(p) ==
  /\ pending' = [pending EXCEPT ![p] = @ + 1]
  /\ attempts' = IF Quiet(p) THEN [attempts EXCEPT ![p] = 0] ELSE attempts

\* another program creates a file in the watched root; the observer, when
\* started, emits a created event
Drop(p) ==
  /\ p \notin base
  /\ disturbances < MaxDisturbances
  /\ disturbances' = disturbances + 1
  /\ base' = base \cup {p}
  /\ drops' = drops + 1
  /\ copyCount' = [copyCount EXCEPT ![p] = 0]
  /\ tagged' = tagged \ {p}
  /\ IF Watching THEN Emit(p) ELSE UNCHANGED <<pending, attempts>>
  /\ UNCHANGED <<calls, config, localDir, networkDir, ledgerFile, memory, ctl,
                 copyOk, failed, cycles, restarts, loaded, atBoot, atStart>>

\* a file in the watched root is written to; the observer emits a modified
\* event
Touch(p) ==
  /\ Watching
  /\ p \in base
  /\ disturbances < MaxDisturbances
  /\ disturbances' = disturbances + 1
  /\ Emit(p)
  /\ UNCHANGED <<calls, config, disk, memory, ctl, copyOk, failed,
                 copyCount, tagged, cycles, drops, restarts, loaded, atBoot, atStart>>

\* the process is terminated and started again with the same configuration:
\* AudioProcessor.__init__ loads copied_files from the ledger file,
\* FileHandler.__init__ and AudioFileHandler.__init__ start from empty sets
Restart ==
  /\ restarts' = restarts + 1
  /\ \E readOk \in BOOLEAN :
        /\ disturbances + (IF readOk THEN 1 ELSE 2) <= MaxDisturbances
        /\ disturbances' = disturbances + (IF readOk THEN 1 ELSE 2)
        /\ copied_files' = load_copied_list(ledgerFile, readOk)
        /\ loaded' = readOk
  /\ atBoot' = Range(ledgerFile)
  /\ atStart' = {p \in base : Suffix(p) \in supported_extensions}
  /\ fh_copied_files' = {}
  /\ processing' = {}
  /\ stats' = ZeroStats
  /\ pending' = [p \in Paths |-> 0]
  /\ pc' = [t \in Threads |-> IF t = Main THEN "start" ELSE "h_idle"]
  /\ cur' = [t \in Threads |-> None]
  /\ dest' = [t \in Threads |-> NoDest]
  /\ audio_files' = {}
  /\ copyOk' = [t \in Threads |-> FALSE]
  /\ failed' = [t \in Threads |-> FALSE]
  /\ attempts' = [p \in Paths |-> 0]
  /\ UNCHANGED <<calls, config, disk, copyCount, tagged, cycles, drops>>

Next ==
  \/ ProcessAllStart
  \/ \E p \in Paths : ProcessAllNext(p)
  \/ \E p \in Paths : ProcessAllSkip(p)
  \/ ProcessAllReturn
  \/ \E t \in Threads : PfResolve(t)
  \/ \E t \in Threads : PfCopyCheck(t)
  \/ \E t \in Threads : PfCopyOk(t)
  \/ \E t \in Threads : PfCopyFail(t)
  \/ \E t \in Threads : PfDelete(t)
  \/ \E t \in Threads : PfNetwork(t)
  \/ \E t \in Threads : PfLedger(t)
  \/ \E h \in Handlers, p \in Paths : DispatchAccept(h, p)
  \/ \E h \in Handlers, p \in Paths : DispatchSkip(h, p)
  \/ \E h \in Handlers : HandlerAdd(h)
  \/ \E h \in Handlers : HandlerProcess(h)
  \/ \E h \in Handlers : HandlerFinally(h)
  \/ \E p \in Paths : Drop(p)
  \/ \E p \in Paths : Touch(p)
  \/ Restart

Spec == Init /\ [][Next]_vars

\* the steps of the program itself
Program ==
  \/ ProcessAllStart
  \/ \E p \in Paths : ProcessAllNext(p)
  \/ \E p \in Paths : ProcessAllSkip(p)
  \/ ProcessAllReturn
  \/ \E t \in Threads : PfResolve(t)
  \/ \E t \in Threads : PfCopyCheck(t)
  \/ \E t \in Threads : PfCopyOk(t)
  \/ \E t \in Threads : PfCopyFail(t)
  \/ \E t \in Threads : PfDelete(t)
  \/ \E t \in Threads : PfNetwork(t)
  \/ \E t \in Threads : PfLedger(t)
  \/ \E h \in Handlers, p \in Paths : DispatchAccept(h, p)
  \/ \E h \in Handlers, p \in Paths : DispatchSkip(h, p)
  \/ \E h \in Handlers : HandlerAdd(h)
  \/ \E h \in Handlers : HandlerProcess(h)
  \/ \E h \in Handlers : HandlerFinally(h)

\* the threads of the process keep running: the polling sleep returns, the
\* loops go on; other programs and restarts are under no obligation
SpecLive == Spec /\ WF_vars(Program)


\* ---------------------------------------------------------------------------
\* AudioProcessor._process_bpm and BPMDetector, for one file
\* ---------------------------------------------------------------------------

\* the service with an empty watched root, not started
PipelineIdle ==
  /\ watch = FALSE
  /\ include_share = FALSE
  /\ supported_extensions = DefaultExtensions
  /\ base = {}
  /\ localDir = [n \in LocalNames |-> None]
  /\ networkDir = [n \in OutputNames |-> None]
  /\ ledgerFile = << >>
  /\ copied_files = {}
  /\ fh_copied_files = {}
  /\ processing = {}
  /\ stats = ZeroStats
  /\ pending = [p \in Paths |-> 0]
  /\ pc = [t \in Threads |-> IF t = Main THEN "start" ELSE "h_idle"]
  /\ cur = [t \in Threads |-> None]
  /\ dest = [t \in Threads |-> NoDest]
  /\ audio_files = {}
  /\ copyOk = [t \in Threads |-> FALSE]
  /\ failed = [t \in Threads |-> FALSE]
  /\ attempts = [p \in Paths |-> 0]
  /\ copyCount = [p \in Paths |-> 0]
  /\ tagged = {}
  /\ cycles = 0
  /\ drops = 0
  /\ restarts = 0
  /\ disturbances = 0
  /\ loaded = TRUE
  /\ atBoot = {}
  /\ atStart = {}

pipeline == <<config, disk, memory, ctl, hist, pending>>

\* tempos the estimator may report (int(round(tempo)))
Tempos == 0..MaxTempo

\* BPM values found in the tags of a file
TagTempos == {0, 64, 65, 100, 135, 136}

\* config.bpm_range: the default, and a configured one
BpmRanges == {<<65, 135>>, <<100, 120>>}

\* Python truth value of an Optional[int]
Truthy(v) == v # NoBpm /\ v # 0

\* BPMDetector.is_bpm_valid
is_bpm_valid(v, min_bpm, max_bpm) == v # NoBpm /\ min_bpm <= v /\ v <= max_bpm

\* get_corrected_bpm that never tries the halved value
get_corrected_bpm_NoHalf(v, min_bpm, max_bpm) ==
  IF is_bpm_valid(v, min_bpm, max_bpm) THEN v
  ELSE IF is_bpm_valid(v * 2, min_bpm, max_bpm) THEN v * 2
  ELSE v

\* BPMDetector.get_corrected_bpm
get_corrected_bpm(v, min_bpm, max_bpm) ==
  IF is_bpm_valid(v, min_bpm, max_bpm) THEN v
  ELSE IF is_bpm_valid(v \div 2, min_bpm, max_bpm) THEN v \div 2
  ELSE IF is_bpm_valid(v * 2, min_bpm, max_bpm) THEN v * 2
  ELSE v

InitBpm ==
  /\ PipelineIdle
  /\ RestIdle
  /\ CleanIdle
  /\ NameIdle
  /\ dry_run \in BOOLEAN
  /\ reAccepts \in BOOLEAN
  /\ suffix \in {".mp3", ".flac"}
  /\ current_bpm \in {NoBpm} \cup TagTempos
  /\ detected_bpm \in {NoBpm} \cup Tempos
  /\ bpm_range \in BpmRanges
  /\ bpc = "line104"
  /\ corrected_bpm = NoBpm
  /\ bpm = current_bpm
  /\ bpmWrites = << >>
  /\ detectCalls = 0

\* process_file lines 105-106: _process_bpm is called for an mp3 file
\* outside a dry run
BpmGuard ==
  /\ bpc = "line104"
  /\ bpc' = IF suffix = ".mp3" /\ ~dry_run THEN "line159" ELSE "line108"
  /\ UNCHANGED <<pipeline, notBpm, suffix, current_bpm, detected_bpm, bpm_range,
                 corrected_bpm, bpm, bpmWrites, detectCalls>>

\* _process_bpm lines 159-162: the BPM of the tags is in range and is kept
BpmKeep ==
  /\ bpc = "line159"
  /\ Truthy(current_bpm)
  /\ is_bpm_valid(current_bpm, bpm_range[1], bpm_range[2])
  /\ bpm' = current_bpm
  /\ bpc' = "line108"
  /\ UNCHANGED <<pipeline, notBpm, suffix, current_bpm, detected_bpm, bpm_range,
                 corrected_bpm, bpmWrites, detectCalls>>

\* _process_bpm that runs the estimator whatever the tags hold
BpmDetect_Always ==
  /\ bpc = "line159"
  /\ detectCalls' = detectCalls + 1
  /\ bpc' = "line171"
  /\ UNCHANGED <<pipeline, notBpm, suffix, current_bpm, detected_bpm, bpm_range,
                 corrected_bpm, bpm, bpmWrites>>

\* _process_bpm lines 164-169: detect_bpm is called
BpmDetect ==
  /\ bpc = "line159"
  /\ ~(Truthy(current_bpm)
        /\ is_bpm_valid(current_bpm, bpm_range[1], bpm_range[2]))
  /\ detectCalls' = detectCalls + 1
  /\ bpc' = "line171"
  /\ UNCHANGED <<pipeline, notBpm, suffix, current_bpm, detected_bpm, bpm_range,
                 corrected_bpm, bpm, bpmWrites>>

\* _process_bpm lines 171-173 and 185
BpmCorrect ==
  /\ bpc = "line171"
  /\ IF Truthy(detected_bpm)
       THEN /\ corrected_bpm' =
                 get_corrected_bpm(detected_bpm, bpm_range[1], bpm_range[2])
            /\ bpc' = "line177"
            /\ bpm' = bpm
       ELSE /\ bpm' = NoBpm
            /\ bpc' = "line108"
            /\ corrected_bpm' = corrected_bpm
  /\ UNCHANGED <<pipeline, notBpm, suffix, current_bpm, detected_bpm, bpm_range,
                 bpmWrites, detectCalls>>

\* _process_bpm lines 177-185: the corrected value is written when in range
BpmWrite ==
  /\ bpc = "line177"
  /\ IF is_bpm_valid(corrected_bpm, bpm_range[1], bpm_range[2])
       THEN /\ bpmWrites' = Append(bpmWrites, corrected_bpm)
            /\ bpm' = corrected_bpm
       ELSE /\ bpmWrites' = bpmWrites
            /\ bpm' = NoBpm
  /\ bpc' = "line108"
  /\ UNCHANGED <<pipeline, notBpm, suffix, current_bpm, detected_bpm, bpm_range,
                 corrected_bpm, detectCalls>>

\* process_file lines 108-132: the filename steps; clean_filename raises
\* when the re engine rejects an entry of PATTERNS (handler of line 141),
\* otherwise _copy_to_destinations is reached
BpmRest ==
  /\ bpc = "line108"
  /\ bpc' = IF reAccepts THEN "line132" ELSE "line141"
  /\ UNCHANGED <<pipeline, notBpm, suffix, current_bpm, detected_bpm, bpm_range,
                 corrected_bpm, bpm, bpmWrites, detectCalls>>

NextBpm ==
  \/ BpmGuard
  \/ BpmKeep
  \/ BpmDetect
  \/ BpmCorrect
  \/ BpmWrite
  \/ BpmRest

SpecBpm == InitBpm /\ [][NextBpm]_vars


\* ---------------------------------------------------------------------------
\* The filename steps of process_file (lines 95-129), for one file
\* ---------------------------------------------------------------------------

\* characters of a file name stem: a letter, the space, the dash
StemChars == {"s", " ", "-"}

RECURSIVE SeqsUpTo(_, _)
\* the sequences over set S of length at most n
SeqsUpTo(S, n) ==
  IF n = 0 THEN {<< >>}
  ELSE LET shorter == SeqsUpTo(S, n - 1)
       IN shorter \cup {Append(q, c) : q \in {r \in shorter : Len(r) = n - 1},
                                       c \in S}

\* a stem whose two sides of the dash are both longer than 2 characters
LongStems == {<<"s", "s", "s", "-", "s", "s", "s">>}

\* stems of the files examined
Stems == (SeqsUpTo(StemChars, MaxStem) \ {<< >>}) \cup LongStems

\* suffixes of the files examined: lower case and upper case
FileSuffixes == {<<".", "m", "p", "3">>, <<".", "M", "P", "3">>}

\* artists and titles get_tags may return
TagArtists == {NoText, << >>, <<"s", "s">>, <<"s", "s", "s">>,
               <<"s", ".", "s">>}
TagTitles == {NoText, <<"s", "s">>, <<"s", "-", "s">>}

\* Python truth value of an Optional[str]
TruthyText(x) == x # NoText /\ x # << >>

\* sub in s: the positions where sub occurs in s
Occurrences(sub, x) ==
  {i \in 1..(Len(x) - Len(sub) + 1) : SubSeq(x, i, i + Len(sub) - 1) = sub}

\* str.find, counted from 1; 0 when sub does not occur
Find(sub, x) ==
  IF Occurrences(sub, x) = {} THEN 0
  ELSE CHOOSE i \in Occurrences(sub, x) : \A j \in Occurrences(sub, x) : i <= j

\* str.strip, for names whose only whitespace is the space
Strip(x) ==
  LET solid == {i \in DOMAIN x : x[i] # " "}
  IN IF solid = {} THEN << >>
     ELSE SubSeq(x, CHOOSE i \in solid : \A j \in solid : i <= j,
                    CHOOSE i \in solid : \A j \in solid : j <= i)

\* str.split(sep, 1) of a string that contains sep
Split1(x, sep) ==
  <<SubSeq(x, 1, Find(sep, x) - 1), SubSeq(x, Find(sep, x) + Len(sep), Len(x))>>

\* extract_from_filename that looks for the bare dash first
extract_from_filename_DashFirst(name) ==
  IF Find(<<"-">>, name) # 0
    THEN <<Strip(Split1(name, <<"-">>)[1]), Strip(Split1(name, <<"-">>)[2])>>
  ELSE <<NoText, NoText>>

\* TagHandler.extract_from_filename, applied to the stem
extract_from_filename(name) ==
  IF Find(<<" ", "-", " ">>, name) # 0
    THEN <<Strip(Split1(name, <<" ", "-", " ">>)[1]),
           Strip(Split1(name, <<" ", "-", " ">>)[2])>>
  ELSE IF Find(<<"-">>, name) # 0
    THEN <<Strip(Split1(name, <<"-">>)[1]), Strip(Split1(name, <<"-">>)[2])>>
  ELSE <<NoText, NoText>>

InitName ==
  /\ PipelineIdle
  /\ RestIdle
  /\ CleanIdle
  /\ BpmIdle
  /\ dry_run \in BOOLEAN
  /\ reAccepts \in BOOLEAN
  /\ stem \in Stems
  /\ tagArtist \in TagArtists
  /\ tagTitle \in TagTitles
  /\ artist = tagArtist
  /\ title = tagTitle
  /\ parsed = <<NoText, NoText>>
  /\ npc = "line109"
  /\ tagWrites = << >>
  /\ clears = 0
  /\ file_suffix \in FileSuffixes
  /\ candidate = NoText
  /\ output_filename = NoText

\* line 109: both fields came from the tags, nothing is parsed
NameComplete ==
  /\ npc = "line109"
  /\ TruthyText(artist) /\ TruthyText(title)
  /\ npc' = "line129"
  /\ UNCHANGED <<pipeline, notName, stem, tagArtist, tagTitle, artist, title,
                 parsed, tagWrites, clears, file_suffix, candidate,
                 output_filename>>

\* lines 109-110: a field is missing, the file name is parsed
NameParse ==
  /\ npc = "line109"
  /\ ~(TruthyText(artist) /\ TruthyText(title))
  /\ parsed' = extract_from_filename(stem)
  /\ npc' = "line112"
  /\ UNCHANGED <<pipeline, notName, stem, tagArtist, tagTitle, artist, title,
                 tagWrites, clears, file_suffix, candidate, output_filename>>

\* lines 112-126: the missing fields are assigned and written, the secondary
\* tags are cleared
NameAssign ==
  /\ npc = "line112"
  /\ LET setArtist == ~TruthyText(artist) /\ TruthyText(parsed[1])
         setTitle == ~TruthyText(title) /\ TruthyText(parsed[2])
     IN /\ artist' = IF setArtist THEN parsed[1] ELSE artist
        /\ title' = IF setTitle THEN parsed[2] ELSE title
        /\ tagWrites' =
             IF dry_run THEN tagWrites
             ELSE tagWrites
                  \o (IF setArtist THEN << <<"artist", parsed[1]>> >> ELSE << >>)
                  \o (IF setTitle THEN << <<"title", parsed[2]>> >> ELSE << >>)
  /\ clears' = IF dry_run THEN clears ELSE clears + 1
  /\ npc' = "line129"
  /\ UNCHANGED <<pipeline, notName, stem, tagArtist, tagTitle, parsed,
                 file_suffix, candidate, output_filename>>

\* the outcome of a call that raised
Raised == <<"raised">>

\* letters of the names examined, as <<lower case, upper case>>
Letters == {<<"s", "S">>, <<"m", "M">>, <<"p", "P">>, <<"a", "A">>,
            <<"c", "C">>, <<"e", "E">>, <<"f", "F">>, <<"g", "G">>,
            <<"i", "I">>, <<"l", "L">>, <<"n", "N">>, <<"o", "O">>,
            <<"t", "T">>, <<"v", "V">>, <<"w", "W">>, <<"x", "X">>}

\* str.lower and str.upper of one character
LowerChar(c) == IF \E l \in Letters : l[2] = c
                  THEN (CHOOSE l \in Letters : l[2] = c)[1] ELSE c
UpperChar(c) == IF \E l \in Letters : l[1] = c
                  THEN (CHOOSE l \in Letters : l[1] = c)[2] ELSE c
IsLetter(c) == \E l \in Letters : c \in {l[1], l[2]}

\* str.lower
Lower(x) == [i \in DOMAIN x |-> LowerChar(x[i])]

\* str.upper
Upper(x) == [i \in DOMAIN x |-> UpperChar(x[i])]

\* str.endswith
EndsWith(x, tail) ==
  Len(tail) <= Len(x) /\ SubSeq(x, Len(x) - Len(tail) + 1, Len(x)) = tail

\* str.title: a letter is upper case after a character that is no letter
\* and at the start, lower case after a letter
Title(x) ==
  [i \in DOMAIN x |->
     IF i = 1 \/ ~IsLetter(x[i - 1]) THEN UpperChar(x[i]) ELSE LowerChar(x[i])]

RECURSIVE Replace(_, _, _)
\* str.replace(old, new) and re.sub of a literal: every occurrence of old,
\* found from left to right without overlap, becomes new
Replace(x, old, new) ==
  IF old = << >> \/ Find(old, x) = 0 THEN x
  ELSE SubSeq(x, 1, Find(old, x) - 1) \o new
       \o Replace(SubSeq(x, Find(old, x) + Len(old), Len(x)), old, new)

RECURSIVE Underscores(_)
\* PATTERNS[1], '[_]{1,}' -> ' ': every run of underscores becomes one space
Underscores(x) ==
  IF x = << >> THEN << >>
  ELSE IF x[1] # "_" THEN <<x[1]>> \o Underscores(Tail(x))
  ELSE IF Len(x) > 1 /\ x[2] = "_" THEN Underscores(Tail(x))
  ELSE <<" ">> \o Underscores(Tail(x))

\* the length of the longest prefix of x made of characters of set S
RECURSIVE Run(_, _)
Run(x, S) == IF x # << >> /\ x[1] \in S THEN 1 + Run(Tail(x), S) ELSE 0

\* PATTERNS[2], '^[a-cA-C0-9]{1,3}[\s-_\.]+' -> '', as an engine that accepts
\* the character class reads it (whitespace, dash, underscore, period): a
\* leading index of one to three characters and the separators after it
\* are removed.  Of [a-cA-C0-9] the names examined hold the digit 3 only.
LeadingIndex(x) ==
  LET n == Run(x, {"3"})
      m == Run(SubSeq(x, n + 1, Len(x)), {" ", "-", "_", "."})
  IN IF n >= 1 /\ n <= 3 /\ m >= 1 THEN SubSeq(x, n + m + 1, Len(x)) ELSE x

\* letters and digits of the names examined
AlnumChars == {"s", "S", "m", "M", "p", "P", "3"}

\* PATTERNS[4], '(?!\)-)[-_\)]+[a-zA-Z0-9]{2,3}\.' -> '.': a run of dashes
\* (underscores are gone by now, no name examined holds a parenthesis)
\* with two or three letters or digits and a period after it becomes the
\* period, from left to right
RECURSIVE BeforeExtension(_)
BeforeExtension(x) ==
  IF x = << >> THEN << >>
  ELSE LET d == Run(x, {"-", "_", ")"})
           after == SubSeq(x, d + 1, Len(x))
           a == Run(after, AlnumChars)
       IN IF d >= 1 /\ a \in {2, 3} /\ Len(after) > a /\ after[a + 1] = "."
            THEN <<".">> \o BeforeExtension(SubSeq(after, a + 2, Len(after)))
            ELSE <<x[1]>> \o BeforeExtension(Tail(x))

\* clean_filename that tells a name apart from the one returned before it
clean_filename_Deduped(filename, extension, accepts) ==
  IF ~accepts THEN Raised
  ELSE LET name == Replace(filename, extension, << >>)
           dashes == Replace(name, <<"-", "-">>, <<" ", "-", " ">>)
           spaced == Underscores(dashes)
           headless == LeadingIndex(spaced)
           cleaned == Title(Strip(BeforeExtension(headless)))
       IN IF cleaned \o extension = output_filename
            THEN cleaned \o <<"_", "1">> \o extension
            ELSE cleaned \o extension

\* FileHandler.clean_filename, lines 41-51.  PATTERNS[3] and PATTERNS[5]
\* need one of net, com, org, ru, siberia: no name examined matches them.
\* PATTERNS[4] needs a period, which a name holds when its suffix is not
\* the lower-case extension that line 41 removes.  re.sub raises re.error
\* for PATTERNS[2] when the engine rejects the range \s-_ .
clean_filename(filename, extension, accepts) ==
  IF ~accepts THEN Raised
  ELSE LET name == Replace(filename, extension, << >>)
           dashes == Replace(name, <<"-", "-">>, <<" ", "-", " ">>)
           spaced == Underscores(dashes)
           headless == LeadingIndex(spaced)
       IN Title(Strip(BeforeExtension(headless))) \o extension

\* _get_output_filename line 202-203: the tags give the name
UseTags(a, t) ==
  /\ TruthyText(a) /\ TruthyText(t)
  /\ Len(a) > 2 /\ Len(t) > 2
  /\ \A i \in DOMAIN a : a[i] # "."

\* _get_output_filename, lines 199-213, called at line 129; an exception
\* of clean_filename ends process_file in the handler of line 141
NameOutput ==
  /\ npc = "line129"
  /\ candidate' = IF UseTags(artist, title)
                    THEN artist \o <<" ", "-", " ">> \o title
                    ELSE stem \o file_suffix
  /\ output_filename' = clean_filename(candidate', Lower(file_suffix), reAccepts)
  /\ npc' = IF output_filename' = Raised THEN "line141" ELSE "line132"
  /\ UNCHANGED <<pipeline, notName, stem, tagArtist, tagTitle, artist, title,
                 parsed, tagWrites, clears, file_suffix>>

NextName ==
  \/ NameComplete
  \/ NameParse
  \/ NameAssign
  \/ NameOutput

SpecName == InitName /\ [][NextName]_vars

\* ---------------------------------------------------------------------------
\* Repeated calls of FileHandler.clean_filename by one process, with copies
\* and ledger appends of process_file between them
\* ---------------------------------------------------------------------------

\* filenames of the other files the process names between two calls with the
\* examined one
OtherStems == {<<"s">>, <<"-">>}

InitClean ==
  /\ PipelineIdle
  /\ RestIdle
  /\ BpmIdle
  /\ dry_run = FALSE
  /\ reAccepts \in BOOLEAN
  /\ stem \in Stems
  /\ file_suffix \in FileSuffixes
  /\ tagArtist = NoText
  /\ tagTitle = NoText
  /\ artist = NoText
  /\ title = NoText
  /\ parsed = <<NoText, NoText>>
  /\ npc = "idle"
  /\ tagWrites = << >>
  /\ clears = 0
  /\ candidate = NoText
  /\ output_filename = NoText
  /\ firstOutput = NoText
  /\ cleanCalls = 0
  /\ ledgerAt = <<0, 0>>

\* _get_output_filename line 212 for the examined file or another one:
\* clean_filename(file_path.name, extension)
CleanCall ==
  /\ cleanCalls < MaxCalls
  /\ \E s \in {stem} \cup OtherStems : candidate' = s \o file_suffix
  /\ output_filename' = clean_filename(candidate', Lower(file_suffix), reAccepts)
  /\ firstOutput' = IF firstOutput = NoText /\ candidate' = stem \o file_suffix
                      THEN output_filename'
                      ELSE firstOutput
  /\ cleanCalls' = cleanCalls + 1
  /\ ledgerAt' = <<IF firstOutput' # firstOutput THEN Len(ledgerFile)
                                                  ELSE ledgerAt[1],
                   Len(ledgerFile)>>
  /\ UNCHANGED <<pipeline, notClean, stem, tagArtist, tagTitle, artist, title,
                 parsed, npc, tagWrites, clears, file_suffix>>

\* process_file lines 132-139 after a name was derived: the copy of a file
\* of the watched root to the local destination and its ledger append
CleanDistribute ==
  /\ cleanCalls > 0
  /\ output_filename # Raised
  /\ Len(ledgerFile) < cleanCalls
  /\ \E p \in base \ copied_files :
        /\ localDir' = [localDir EXCEPT ![<<OutputFilename(p), 0>>] = p]
        /\ ledgerFile' = Append(ledgerFile, p)
        /\ copied_files' = copied_files \cup {p}
  /\ UNCHANGED <<config, base, networkDir, fh_copied_files, processing, stats,
                 ctl, hist, pending, calls>>

\* another program creates a file in the watched root between two calls
CleanDrop ==
  /\ disturbances < MaxDisturbances
  /\ disturbances' = disturbances + 1
  /\ \E p \in Paths \ base : base' = base \cup {p}
  /\ UNCHANGED <<config, localDir, networkDir, ledgerFile, memory, ctl,
                 copyOk, failed, attempts, copyCount, tagged, cycles, drops, restarts,
                 loaded, atBoot, atStart, pending, calls>>

NextClean ==
  \/ CleanCall
  \/ CleanDistribute
  \/ CleanDrop

SpecClean == InitClean /\ [][NextClean]_vars

\* ---------------------------------------------------------------------------
\* One call of AudioFileHandler._wait_for_file_ready(file_path, MaxWait) and
\* the call of process_file after it (watcher.py lines 78-83, 91-126).  What
\* exists() and stat() report in an iteration is decided by the programs
\* that write, truncate, remove or lock the file: any outcome may follow any.
\* ---------------------------------------------------------------------------

\* sizes stat() reports: enough of them for a file that grows at every check
Sizes == 0..(MaxWait + 1)

InitWait ==
  /\ PipelineIdle
  /\ BpmIdle
  /\ NameIdle
  /\ CleanIdle
  /\ StopIdle
  /\ PollIdle
  /\ AppendIdle
  /\ LaterIdle
  /\ dry_run = FALSE
  /\ reAccepts \in BOOLEAN
  /\ last_size = -1
  /\ wait_time = 0
  /\ wpc = "line103"
  /\ warnings = 0
  /\ processCalls = 0
  /\ seen = {}
  /\ samples = <<>>

notWait == <<pipeline, bpmCall, nameCall, cleanCall, stopCall, pollCall,
             appendCall, later>>

\* lines 105-108 with the wait restarted when the file is absent
WaitAbsent_Restart ==
  /\ wpc = "line103"
  /\ wait_time < MaxWait
  /\ wait_time' = 0
  /\ last_size' = -1
  /\ seen' = seen \cup {"absent"}
  /\ UNCHANGED <<notWait, wpc, warnings, processCalls, samples>>

\* lines 103-108: the file does not exist; sleep, count the second, continue
WaitAbsent ==
  /\ wpc = "line103"
  /\ wait_time < MaxWait
  /\ wait_time' = wait_time + 1
  /\ seen' = seen \cup {"absent"}
  /\ UNCHANGED <<notWait, last_size, wpc, warnings, processCalls, samples>>

\* the two latest elements of a sequence
LastTwo(q) == IF Len(q) > 2 THEN Tail(q) ELSE q

\* lines 113-114 without the test that the size is positive
WaitSize_ZeroReady ==
  /\ wpc = "line103"
  /\ wait_time < MaxWait
  /\ \E current_size \in Sizes :
     /\ samples' = LastTwo(Append(samples, current_size))
     /\ IF current_size = last_size
             THEN /\ wpc' = "line81"
                  /\ seen' = seen \cup {"stable"}
                  /\ UNCHANGED <<last_size, wait_time>>
             ELSE /\ last_size' = current_size
                  /\ wait_time' = wait_time + 1
                  /\ seen' = seen \cup {IF current_size = 0 THEN "zero"
                                         ELSE IF current_size > last_size
                                           THEN "grew" ELSE "shrank"}
                  /\ wpc' = wpc
  /\ UNCHANGED <<notWait, warnings, processCalls>>

\* lines 103-118: the file exists and stat() gives current_size; return when
\* it is positive and equal to last_size, otherwise remember it, sleep and
\* count the second
WaitSize ==
  /\ wpc = "line103"
  /\ wait_time < MaxWait
  /\ \E current_size \in Sizes :
     /\ samples' = LastTwo(Append(samples, current_size))
     /\ IF current_size = last_size /\ current_size > 0
             THEN /\ wpc' = "line81"
                  /\ seen' = seen \cup {"stable"}
                  /\ UNCHANGED <<last_size, wait_time>>
             ELSE /\ last_size' = current_size
                  /\ wait_time' = wait_time + 1
                  /\ seen' = seen \cup {IF current_size = 0 THEN "zero"
                                         ELSE IF current_size > last_size
                                           THEN "grew" ELSE "shrank"}
                  /\ wpc' = wpc
  /\ UNCHANGED <<notWait, warnings, processCalls>>

\* lines 104-123: exists() or stat() raises (the file was removed between
\* the two, or cannot be examined); sleep, count the second
WaitRaise ==
  /\ wpc = "line103"
  /\ wait_time < MaxWait
  /\ wait_time' = wait_time + 1
  /\ seen' = seen \cup {"raise"}
  /\ UNCHANGED <<notWait, last_size, wpc, warnings, processCalls, samples>>

\* lines 103, 126: the loop condition fails; warn and return
WaitTimeout ==
  /\ wpc = "line103"
  /\ wait_time >= MaxWait
  /\ warnings' = warnings + 1
  /\ wpc' = "line81"
  /\ UNCHANGED <<notWait, last_size, wait_time, processCalls, seen, samples>>

\* lines 81-89: the handler calls process_file, which catches what its steps
\* raise, and leaves through finally
WaitProcess ==
  /\ wpc = "line81"
  /\ processCalls' = processCalls + 1
  /\ wpc' = "line89"
  /\ UNCHANGED <<notWait, last_size, wait_time, warnings, seen, samples>>

NextWait ==
  \/ WaitAbsent
  \/ WaitSize
  \/ WaitRaise
  \/ WaitTimeout
  \/ WaitProcess

SpecWait == InitWait /\ [][NextWait]_vars

\* the handler thread keeps running: time.sleep returns and the thread is
\* scheduled again
SpecWaitLive == SpecWait /\ WF_vars(NextWait)

\* ---------------------------------------------------------------------------
\* Shutdown in event mode: MP3Service._start_watching on the main thread,
\* _signal_handler and stop, which Python runs on the main thread between
\* two of its instructions, and the observer thread of FileWatcher.  Of the
\* watchdog Observer the model takes its documented behaviour: start() begins
\* a daemon thread that dispatches queued events one at a time, stop() asks it
\* to end, which it does once the dispatch in progress has returned, and
\* join() returns when the thread has ended.
\* ---------------------------------------------------------------------------

Handling == {"line78", "line83"}

InitStop ==
  /\ PipelineIdle
  /\ BpmIdle
  /\ NameIdle
  /\ CleanIdle
  /\ WaitIdle
  /\ PollIdle
  /\ AppendIdle
  /\ LaterIdle
  /\ dry_run \in BOOLEAN
  /\ reAccepts \in BOOLEAN
  /\ mpc = "line112"
  /\ spc = "none"
  /\ running = TRUE
  /\ opc = "none"
  /\ stopFlag = FALSE
  /\ queue = 0
  /\ stopped = FALSE

notStop == <<config, disk, memory, ctl, pending, bpmCall, nameCall, cleanCall,
             waitCall, pollCall, appendCall, later>>
stopHist == <<copyOk, failed, attempts, copyCount, tagged, cycles, drops, restarts,
              loaded, atBoot, atStart>>

\* main.py lines 112-113: the initial pass ends
StopPass ==
  /\ spc = "none"
  /\ mpc = "line112"
  /\ mpc' = "line116"
  /\ UNCHANGED <<notStop, hist, spc, running, opc, stopFlag, queue, stopped>>

\* main.py line 116, watcher.py lines 149-158: the observer is created and
\* started
StopStart ==
  /\ spc = "none"
  /\ mpc = "line116"
  /\ mpc' = "line119"
  /\ opc' = "idle"
  /\ UNCHANGED <<notStop, hist, spc, running, stopFlag, queue, stopped>>

\* main.py lines 119-120: the loop, which sleeps and changes nothing while
\* running is true, ends when it is false
StopLoop ==
  /\ spc = "none"
  /\ mpc = "line119"
  /\ ~running
  /\ mpc' = "returned"
  /\ UNCHANGED <<notStop, hist, spc, running, opc, stopFlag, queue, stopped>>

\* start() and main() return and the interpreter exits; a daemon thread
\* still alive ends with it, wherever it is
StopExit ==
  /\ spc = "none"
  /\ mpc = "returned"
  /\ mpc' = "exited"
  /\ opc' = IF opc \in Handling THEN "killed"
            ELSE IF opc = "idle" THEN "exited" ELSE opc
  /\ UNCHANGED <<notStop, hist, spc, running, stopFlag, queue, stopped>>

\* SIGINT or SIGTERM is delivered: main.py lines 149-152 begin on the main
\* thread
StopSignal ==
  /\ spc = "none"
  /\ mpc \notin {"returned", "exited"}
  /\ disturbances < MaxDisturbances
  /\ disturbances' = disturbances + 1
  /\ spc' = "line144"
  /\ UNCHANGED <<notStop, stopHist, mpc, running, opc, stopFlag, queue,
                 stopped>>

\* main.py lines 144-145, watcher.py lines 168-170: observer.stop() when
\* there is an observer
StopWatcher ==
  /\ spc = "line144"
  /\ IF opc = "none"
       THEN spc' = "line147" /\ UNCHANGED stopFlag
       ELSE spc' = "line171" /\ stopFlag' = TRUE
  /\ stopped' = TRUE
  /\ UNCHANGED <<notStop, hist, mpc, running, opc, queue>>

\* watcher.py line 171: observer.join() returns once the thread has ended
StopJoin ==
  /\ spc = "line171"
  /\ opc = "exited"
  /\ spc' = "line147"
  /\ UNCHANGED <<notStop, hist, mpc, running, opc, stopFlag, queue, stopped>>

\* main.py line 147, and the handler returns
StopRunning ==
  /\ spc = "line147"
  /\ running' = FALSE
  /\ spc' = "none"
  /\ UNCHANGED <<notStop, hist, mpc, opc, stopFlag, queue, stopped>>

\* another program creates or modifies a file of the watched root while the
\* observer watches it
StopEmit ==
  /\ opc \in {"idle"} \cup Handling
  /\ ~stopFlag
  /\ disturbances < MaxDisturbances
  /\ disturbances' = disturbances + 1
  /\ queue' = queue + 1
  /\ UNCHANGED <<notStop, stopHist, mpc, spc, running, opc, stopFlag, stopped>>

\* the observer thread dispatches an event: on_created or on_modified up to
\* watcher.py line 75
StopDispatch ==
  /\ opc = "idle"
  /\ ~stopFlag
  /\ queue > 0
  /\ queue' = queue - 1
  /\ opc' = "line78"
  /\ UNCHANGED <<notStop, hist, mpc, spc, running, stopFlag, stopped>>

\* watcher.py line 78: _wait_for_file_ready returns
StopGate ==
  /\ opc = "line78"
  /\ opc' = "line83"
  /\ UNCHANGED <<notStop, hist, mpc, spc, running, stopFlag, queue, stopped>>

\* watcher.py lines 83-89: process_file returns and the handler ends
StopHandled ==
  /\ opc = "line83"
  /\ opc' = "idle"
  /\ UNCHANGED <<notStop, hist, mpc, spc, running, stopFlag, queue, stopped>>

\* the observer thread ends after stop(), between two dispatches
StopThreadEnd ==
  /\ opc = "idle"
  /\ stopFlag
  /\ opc' = "exited"
  /\ UNCHANGED <<notStop, hist, mpc, spc, running, stopFlag, queue, stopped>>

NextStop ==
  \/ StopPass
  \/ StopStart
  \/ StopLoop
  \/ StopExit
  \/ StopSignal
  \/ StopWatcher
  \/ StopJoin
  \/ StopRunning
  \/ StopEmit
  \/ StopDispatch
  \/ StopGate
  \/ StopHandled
  \/ StopThreadEnd

SpecStop == InitStop /\ [][NextStop]_vars

\* ---------------------------------------------------------------------------
\* Shutdown in polling mode: MP3Service._start_polling on the main thread
\* and _signal_handler, which Python runs on the main thread between two of
\* its instructions.  A time.sleep during which a handler ran and returned
\* goes on for the rest of its interval and then returns normally.
\* ---------------------------------------------------------------------------

\* files a pass may find
PassSizes == 0..2

InPass == mpc \in {"line87", "line98"}

InitPoll ==
  /\ PipelineIdle
  /\ BpmIdle
  /\ NameIdle
  /\ CleanIdle
  /\ WaitIdle
  /\ AppendIdle
  /\ LaterIdle
  /\ dry_run \in BOOLEAN
  /\ reAccepts \in BOOLEAN
  /\ mpc = "line87"
  /\ spc = "none"
  /\ running = TRUE
  /\ opc = "none"
  /\ stopFlag = FALSE
  /\ queue = 0
  /\ stopped = FALSE
  /\ slept = 0
  /\ left \in PassSizes \ {0}

notPoll == <<config, disk, memory, ctl, pending, bpmCall, nameCall, cleanCall,
             waitCall, appendCall, later, opc, stopFlag, queue>>
pollHist == <<copyOk, failed, attempts, copyCount, tagged, drops, restarts,
              loaded, atBoot, atStart>>

\* processor.py lines 74-78: the pass handles its next file
PollFile ==
  /\ spc = "none"
  /\ InPass
  /\ left > 0
  /\ left' = left - 1
  /\ UNCHANGED <<notPoll, hist, mpc, spc, running, stopped, slept>>

\* main.py lines 87-88 and 98-99: process_all returns
PollPassEnd ==
  /\ spc = "none"
  /\ InPass
  /\ left = 0
  /\ cycles < MaxCycles
  /\ cycles' = cycles + 1
  /\ mpc' = "line93"
  /\ UNCHANGED <<notPoll, pollHist, disturbances, spc, running, stopped, slept,
                 left>>

\* main.py line 93: the loop condition
PollLoop ==
  /\ spc = "none"
  /\ mpc = "line93"
  /\ mpc' = IF running THEN "line95" ELSE "returned"
  /\ slept' = 0
  /\ UNCHANGED <<notPoll, hist, spc, running, stopped, left>>

\* main.py line 95: a second of time.sleep(poll_interval) passes
PollTick ==
  /\ spc = "none"
  /\ mpc = "line95"
  /\ slept < MaxSleep
  /\ slept' = slept + 1
  /\ UNCHANGED <<notPoll, hist, mpc, spc, running, stopped, left>>

\* main.py lines 95-98: the sleep returns and process_all is called
PollWake ==
  /\ spc = "none"
  /\ mpc = "line95"
  /\ slept = MaxSleep
  /\ mpc' = "line98"
  /\ left' \in PassSizes
  /\ UNCHANGED <<notPoll, hist, spc, running, stopped, slept>>

\* SIGINT or SIGTERM is delivered: main.py lines 149-152 begin on the main
\* thread
PollSignal ==
  /\ spc = "none"
  /\ mpc # "returned"
  /\ disturbances < MaxDisturbances
  /\ disturbances' = disturbances + 1
  /\ spc' = "line144"
  /\ UNCHANGED <<notPoll, pollHist, cycles, mpc, running, stopped, slept, left>>

\* main.py lines 144-147: there is no watcher; running = False, and the
\* handler returns
PollStop ==
  /\ spc = "line144"
  /\ running' = FALSE
  /\ stopped' = TRUE
  /\ spc' = "none"
  /\ UNCHANGED <<notPoll, hist, mpc, slept, left>>

NextPoll ==
  \/ PollFile
  \/ PollPassEnd
  \/ PollLoop
  \/ PollTick
  \/ PollWake
  \/ PollSignal
  \/ PollStop

SpecPoll == InitPoll /\ [][NextPoll]_vars

\* ---------------------------------------------------------------------------
\* FileHandler.update_copied_list called by several handlers at once, each
\* with its own path, and the file as load_copied_list reads it afterwards.
\* Each call opens the file in append mode, which places every write at the
\* end the file has when the write is made; the line stays in the file
\* object until the with block closes it and leaves in one write.
\* ---------------------------------------------------------------------------

\* paths under the watched root: a plain one, one with a space and one with
\* a line feed inside the file name, and a second plain one
AppendPaths ==
  { <<"/", "a", ".", "m", "p", "3">>,
    <<"/", "b", " ", "c", ".", "m", "p", "3">>,
    <<"/", "d", "\n", "e", ".", "m", "p", "3">>,
    <<"/", "f", ".", "m", "p", "3">> }

\* f"{file_path}\n"
LedgerLine(p) == p \o <<"\n">>

\* the lines a text file yields when iterated, without their line ends
RECURSIVE FileLines(_)
FileLines(text) ==
  IF text = << >> THEN << >>
  ELSE IF Find(<<"\n">>, text) = 0 THEN <<text>>
  ELSE <<SubSeq(text, 1, Find(<<"\n">>, text) - 1)>>
         \o FileLines(SubSeq(text, Find(<<"\n">>, text) + 1, Len(text)))

\* file_handler.py lines 101-103: the stripped lines that are not blank
ReadLedger(text) == {Strip(l) : l \in Range(FileLines(text))} \ {<< >>}

InitAppend ==
  /\ PipelineIdle
  /\ BpmIdle
  /\ NameIdle
  /\ CleanIdle
  /\ WaitIdle
  /\ StopIdle
  /\ PollIdle
  /\ LaterIdle
  /\ dry_run = FALSE
  /\ reAccepts \in BOOLEAN
  /\ listText = << >>
  /\ apc = [h \in Handlers |-> "line118"]
  /\ apath \in {f \in [Handlers -> AppendPaths] :
                   \A g, h \in Handlers : g # h => f[g] # f[h]}
  /\ wbuf = [h \in Handlers |-> << >>]
  /\ appended = {}

notAppend == <<pipeline, bpmCall, nameCall, cleanCall, waitCall, stopCall,
               pollCall, later>>

\* line 118: open(list_file, 'a') succeeds
AppendOpen(h) ==
  /\ apc[h] = "line118"
  /\ apc' = [apc EXCEPT ![h] = "line119"]
  /\ UNCHANGED <<notAppend, listText, apath, wbuf, appended>>

\* lines 118, 122-123: open raises; the error is logged and nothing is
\* written
AppendRaise(h) ==
  /\ apc[h] = "line118"
  /\ apc' = [apc EXCEPT ![h] = "done"]
  /\ UNCHANGED <<notAppend, listText, apath, wbuf, appended>>

\* line 119: f.write puts the line into the file object
AppendWrite(h) ==
  /\ apc[h] = "line119"
  /\ wbuf' = [wbuf EXCEPT ![h] = LedgerLine(apath[h])]
  /\ apc' = [apc EXCEPT ![h] = "line120"]
  /\ UNCHANGED <<notAppend, listText, apath, appended>>

\* lines 118-120: the with block closes the file, whose content is written
\* at the end of copiedList.txt; the path joins FileHandler.copied_files
AppendClose(h) ==
  /\ apc[h] = "line120"
  /\ listText' = listText \o wbuf[h]
  /\ wbuf' = [wbuf EXCEPT ![h] = << >>]
  /\ appended' = appended \cup {apath[h]}
  /\ apc' = [apc EXCEPT ![h] = "done"]
  /\ UNCHANGED <<notAppend, apath>>

NextAppend ==
  \/ \E h \in Handlers : AppendOpen(h)
  \/ \E h \in Handlers : AppendRaise(h)
  \/ \E h \in Handlers : AppendWrite(h)
  \/ \E h \in Handlers : AppendClose(h)

SpecAppend == InitAppend /\ [][NextAppend]_vars

\* ---------------------------------------------------------------------------
\* Discovery: FileHandler.get_audio_files (the polling scan) and the filter
\* of AudioFileHandler.on_created / on_modified with the tests at the head
\* of _process_file_with_delay, applied to the same path.  Nothing is in
\* copied_files or in processing.
\* ---------------------------------------------------------------------------

\* the characters of an extension of the configuration
ExtText(e) ==
  CASE e = ".mp3" -> <<".", "m", "p", "3">>
    [] e = ".m4a" -> <<".", "m", "4", "a">>
    [] e = ".wav" -> <<".", "w", "a", "v">>
    [] e = ".aif" -> <<".", "a", "i", "f">>
    [] e = ".aiff" -> <<".", "a", "i", "f", "f">>
    [] e = ".flac" -> <<".", "f", "l", "a", "c">>
    [] e = ".ogg" -> <<".", "o", "g", "g">>
    [] e = ".txt" -> <<".", "t", "x", "t">>

\* "INCOMPLETE~"
Sentinel == <<"I", "N", "C", "O", "M", "P", "L", "E", "T", "E", "~">>

\* what stands before the suffix in the names examined: a letter, nothing
\* (the name is the suffix alone), the sentinel first, the sentinel last
FilterStems == {<<"s">>, << >>, Sentinel \o <<"s">>, <<"s">> \o Sentinel}

\* how the names examined end
FilterSuffixes ==
  { <<".", "m", "p", "3">>, <<".", "M", "P", "3">>, <<".", "M", "p", "3">>,
    <<".", "m", "P", "3">>, <<".", "a", "i", "f", "f">>, <<".", "A", "I", "F">>,
    <<".", "t", "x", "t">> }

\* PurePath.suffix: the name from its last period on, when that period is
\* neither the first nor the last character
PathSuffix(name) ==
  LET dots == {i \in DOMAIN name : name[i] = "."}
      last == CHOOSE i \in dots : \A j \in dots : j <= i
  IN IF dots = {} THEN << >>
     ELSE IF 1 < last /\ last < Len(name)
       THEN SubSeq(name, last, Len(name)) ELSE << >>

\* the glob pattern "*" + ext matches the name
GlobMatches(name, ext, folds) ==
  IF folds THEN EndsWith(Lower(name), Lower(ext)) ELSE EndsWith(name, ext)

\* file_handler.py lines 67-70: how many entries the two rglob calls per
\* extension contribute for the path
GlobHits(name, extensions, folds) ==
  Cardinality({e \in extensions : GlobMatches(name, ExtText(e), folds)})
  + Cardinality({e \in extensions :
                   GlobMatches(name, Upper(ExtText(e)), folds)})

\* file_path.suffix.lower() in self.config.supported_extensions
SuffixSupported(name, extensions) ==
  \E e \in extensions : ExtText(e) = Lower(PathSuffix(name))

\* "INCOMPLETE~" in file_path.name
HasSentinel(name) == Find(Sentinel, name) # 0

InitFilter ==
  /\ PipelineIdle
  /\ BpmIdle
  /\ NameIdle
  /\ CleanIdle
  /\ WaitIdle
  /\ StopIdle
  /\ PollIdle
  /\ AppendIdle
  /\ JanitorIdle
  /\ dry_run = FALSE
  /\ reAccepts \in BOOLEAN
  /\ fname \in {st \o su : st \in FilterStems, su \in FilterSuffixes}
  /\ is_directory \in BOOLEAN
  /\ caseFolds \in BOOLEAN
  /\ fpc = {}
  /\ discovered = 0
  /\ admitted = {}

notFilter == <<pipeline, bpmCall, nameCall, cleanCall, waitCall, stopCall,
               pollCall, appendCall, janitorCall>>

\* get_audio_files, lines 64-78: the entries for the path that survive the
\* filter of lines 73-76
FilterScan ==
  /\ "scan" \notin fpc
  /\ discovered' = IF HasSentinel(fname) THEN 0
                    ELSE GlobHits(fname, supported_extensions, caseFolds)
  /\ fpc' = fpc \cup {"scan"}
  /\ UNCHANGED <<notFilter, fname, is_directory, caseFolds, admitted>>

\* on_created, lines 33-40, and _process_file_with_delay, lines 61-70; the
\* tests against processing and copied_files pass, both sets being empty
FilterCreated ==
  /\ "created" \notin fpc
  /\ admitted' =
       IF /\ ~is_directory
          /\ SuffixSupported(fname, supported_extensions)
          /\ ~HasSentinel(fname)
         THEN admitted \cup {"created"} ELSE admitted
  /\ fpc' = fpc \cup {"created"}
  /\ UNCHANGED <<notFilter, fname, is_directory, caseFolds, discovered>>

\* on_modified, lines 44-52, and _process_file_with_delay, lines 61-70; the
\* tests against copied_files and processing pass, both sets being empty
FilterModified ==
  /\ "modified" \notin fpc
  /\ admitted' =
       IF /\ ~is_directory
          /\ SuffixSupported(fname, supported_extensions)
          /\ ~HasSentinel(fname)
         THEN admitted \cup {"modified"} ELSE admitted
  /\ fpc' = fpc \cup {"modified"}
  /\ UNCHANGED <<notFilter, fname, is_directory, caseFolds, discovered>>

NextFilter ==
  \/ FilterScan
  \/ FilterCreated
  \/ FilterModified

SpecFilter == InitFilter /\ [][NextFilter]_vars

\* ---------------------------------------------------------------------------
\* One call of FileHandler.remove_empty_directories(base_path): the watched
\* root holds files and one subdirectory, which holds files and possibly a
\* directory.  A download may put a file into the subdirectory while the
\* call is running.
\* ---------------------------------------------------------------------------

\* "copiedList.txt"
LedgerName ==
  <<"c", "o", "p", "i", "e", "d", "L", "i", "s", "t", ".", "t", "x", "t">>

\* the entry of the root that is the subdirectory
SubName == <<"s", "u", "b">>

\* the file a download writes into the subdirectory
ArrivalName == <<"n", ".", "m", "p", "3">>

\* names of files found in the subdirectory: audio, plaintext in upper
\* case, other, and other with the sentinel first or inside the name
JanitorNames ==
  { <<"s", ".", "m", "p", "3">>,
    <<"s", ".", "T", "X", "T">>,
    <<"s", ".", "j", "p", "g">>,
    Sentinel \o <<"s", ".", "j", "p", "g">>,
    <<"s">> \o Sentinel \o <<".", "j", "p", "g">> }

\* names of the files that lie directly in the root: the ledger file and
\* a file that is neither audio nor plaintext
RootNames == {LedgerName, <<"s", ".", "j", "p", "g">>}

\* str.startswith
StartsWith(x, head) == Len(head) <= Len(x) /\ SubSeq(x, 1, Len(head)) = head

\* file_handler.py line 190: the suffix is in the literal list
JanitorKeepsName(name) ==
  \E e \in JanitorKeeps : ExtText(e) = Lower(PathSuffix(name))

\* lines 190-191: the file is to be unlinked
JanitorUnlinks(name) ==
  ~JanitorKeepsName(name) /\ ~StartsWith(name, Sentinel)

InitJanitor ==
  /\ PipelineIdle
  /\ BpmIdle
  /\ NameIdle
  /\ CleanIdle
  /\ WaitIdle
  /\ StopIdle
  /\ PollIdle
  /\ AppendIdle
  /\ FilterIdle
  /\ dry_run = FALSE
  /\ reAccepts \in BOOLEAN
  /\ rootFiles = RootNames
  /\ subFiles \in SUBSET JanitorNames
  /\ nested \in BOOLEAN
  /\ subExists = TRUE
  /\ jpc = "line182"
  /\ rootTodo = rootFiles \cup {SubName}
  /\ subTodo = {}
  /\ unlinked = {}

notJanitor == <<pipeline, bpmCall, nameCall, cleanCall, waitCall, stopCall,
                pollCall, appendCall, filterCall>>

\* the outer loop that cleans the files of the root as well
JanitorRootFile_Cleans(f) ==
  /\ jpc = "line182"
  /\ f \in rootTodo \ {SubName}
  /\ rootTodo' = rootTodo \ {f}
  /\ rootFiles' = IF JanitorUnlinks(f) THEN rootFiles \ {f} ELSE rootFiles
  /\ UNCHANGED <<notJanitor, subFiles, nested, subExists, jpc, subTodo,
                 unlinked>>

\* lines 182-184: an entry of the root that is not a directory is passed
\* over
JanitorRootFile(f) ==
  /\ jpc = "line182"
  /\ f \in rootTodo \ {SubName}
  /\ rootTodo' = rootTodo \ {f}
  /\ UNCHANGED <<notJanitor, rootFiles, subFiles, nested, subExists, jpc,
                 subTodo, unlinked>>

\* lines 182-187: the entry is the subdirectory, its listing is taken
JanitorEnter ==
  /\ jpc = "line182"
  /\ SubName \in rootTodo
  /\ rootTodo' = rootTodo \ {SubName}
  /\ subTodo' = subFiles
  /\ jpc' = "line187"
  /\ UNCHANGED <<notJanitor, rootFiles, subFiles, nested, subExists,
                 unlinked>>

\* lines 187-196: a file of the subdirectory is kept, or unlinked, or the
\* unlink raises and is logged; the directory it may hold is no file
JanitorFile(f) ==
  /\ jpc = "line187"
  /\ f \in subTodo
  /\ subTodo' = subTodo \ {f}
  /\ \/ /\ JanitorUnlinks(f)
        /\ subFiles' = subFiles \ {f}
        /\ unlinked' = unlinked \cup {f}
     \/ /\ subFiles' = subFiles
        /\ unlinked' = unlinked
  /\ UNCHANGED <<notJanitor, rootFiles, nested, subExists, jpc, rootTodo>>

\* lines 198-199: the inner loop is over; any(subdir.iterdir())
JanitorLook ==
  /\ jpc = "line187"
  /\ subTodo = {}
  /\ jpc' = IF subFiles = {} /\ ~nested THEN "line200" ELSE "line182"
  /\ UNCHANGED <<notJanitor, rootFiles, subFiles, nested, subExists, rootTodo,
                 subTodo, unlinked>>

\* lines 200-204: rmdir, which raises for a directory that is not empty
JanitorRmdir ==
  /\ jpc = "line200"
  /\ subExists' = (subFiles # {} \/ nested)
  /\ jpc' = "line182"
  /\ UNCHANGED <<notJanitor, rootFiles, subFiles, nested, rootTodo, subTodo,
                 unlinked>>

\* lines 182, 206: the outer loop is over
JanitorReturn ==
  /\ jpc = "line182"
  /\ rootTodo = {}
  /\ jpc' = "done"
  /\ UNCHANGED <<notJanitor, rootFiles, subFiles, nested, subExists, rootTodo,
                 subTodo, unlinked>>

\* another program writes a file into the subdirectory
JanitorArrive ==
  /\ jpc # "done"
  /\ subExists
  /\ ArrivalName \notin subFiles
  /\ subFiles' = subFiles \cup {ArrivalName}
  /\ UNCHANGED <<notJanitor, rootFiles, nested, subExists, jpc, rootTodo,
                 subTodo, unlinked>>

NextJanitor ==
  \/ \E f \in RootNames : JanitorRootFile(f)
  \/ JanitorEnter
  \/ \E f \in JanitorNames \cup {ArrivalName} : JanitorFile(f)
  \/ JanitorLook
  \/ JanitorRmdir
  \/ JanitorReturn
  \/ JanitorArrive

SpecJanitor == InitJanitor /\ [][NextJanitor]_vars


\* ---------------------------------------------------------------------------
\* Properties
\* ---------------------------------------------------------------------------

\* this step calls process_file for path p
StartsProcessFile(p) ==
  \E t \in Threads : pc[t] # "pf_resolve" /\ pc'[t] = "pf_resolve" /\ cur'[t] = p

\* a handler invocation that is in the stability gate or in process_file
InGateOrProcess(h) ==
  pc[h] \in {"h_wait", "pf_resolve", "pf_copy", "pf_copy2", "pf_delete",
             "pf_net", "pf_ledger"}

C4_TwoRunsLedgerOnce ==
  (/\ ~watch /\ ~dry_run
   /\ drops = 0 /\ restarts = 0
   /\ cycles = 2 /\ pc[Main] = "sleep")
  => /\ \A p \in atStart : Lines(ledgerFile, p) = 1
     /\ stats.processed = 0

\* this step dispatches an event for path p to invocation h, which passes
\* every check and goes on to the stability gate and process_file
AcceptsEvent(h, p) == pc[h] = "h_idle" /\ pc'[h] = "h_add" /\ cur'[h] = p

\* C5: of the events of one burst for a path (each emitted while an earlier
\* one is still pending or being handled) only one leads to process_file:
\* once process_file has been called for the burst, no further event of it
\* is accepted.
C5_OneAttemptPerBurst ==
  [][\A h \in Handlers, p \in Paths : AcceptsEvent(h, p) => attempts[p] = 0]_vars

\* C6: no two handler invocations are in the stability gate or in
\* process_file for the same path at the same time.
C6_OneHandlerPerPath ==
  \A g, h \in Handlers :
    (g # h /\ InGateOrProcess(g) /\ InGateOrProcess(h)) => cur[g] # cur[h]


\* a handler invocation that has executed line 75 and not yet line 89
HoldsMarker(h) == InGateOrProcess(h) \/ pc[h] = "h_finally"

\* this step dispatches an event for path p and the handler returns early
SkipsEvent(p) == pending'[p] = pending[p] - 1 /\ pc' = pc

\* C7: a handler has its path in the in-flight set when it enters the
\* stability gate and has removed it when it ends, whatever process_file did;
\* the set holds only paths of running handlers, so it is empty when none
\* runs, and an event for a supported path that is not in copied_files and
\* has no running handler is never skipped.
C7_MarkerReleased ==
  /\ [](processing \subseteq {cur[h] : h \in {g \in Handlers : HoldsMarker(g)}})
  /\ [][\A h \in Handlers :
          /\ (pc[h] = "h_add" /\ pc'[h] = "h_wait") => cur[h] \in processing'
          /\ (pc[h] = "h_finally" /\ pc'[h] = "h_idle") => cur[h] \notin processing'
       ]_vars
  /\ [][\A p \in Paths :
          (/\ SkipsEvent(p)
           /\ \A h \in Handlers : cur[h] # p
           /\ Suffix(p) \in supported_extensions)
          => p \in copied_files]_vars

\* a second handler for the path is in the stability gate after process_file
\* of an earlier one ended in the error handler
C7_Witness ==
  \E h \in Handlers :
    /\ pc[h] = "h_wait"
    /\ attempts[cur[h]] >= 1
    /\ stats.errors >= 1
    /\ processing = {cur[h]}
    /\ \A g \in Handlers \ {h} : pc[g] = "h_idle"

\* C8: a candidate leaves the watched root only in a step of a process_file
\* for that path whose copy_file has returned True.
C8_DeleteOnlyAfterCopy ==
  [][\A p \in Paths :
       (p \in base /\ p \notin base' /\ Suffix(p) \in supported_extensions)
       => \E t \in Threads : cur[t] = p /\ copyOk[t]]_vars

\* C9: the network destination changes only in a step of a process_file
\* whose copy_file has returned True before.
C9_PublishAfterLocalCopy ==
  [][networkDir' # networkDir
       => \E t \in Threads : pc[t] = "pf_net" /\ copyOk[t]
                             /\ networkDir'[OutputFilename(cur[t])] # None]_vars

\* a file has been published
C9_Witness == \E n \in OutputNames : networkDir[n] # None

InRange(v) == bpm_range[1] <= v /\ v <= bpm_range[2]

\* get_corrected_bpm has returned
Corrected == bpc = "line177"

\* C12: octave correction returns an in-range estimate unchanged, otherwise
\* the halved value (rounded down) when that is in range, otherwise the
\* doubled value when that is in range; 160 in [65,135] gives 80, 50 gives 100.
C12_OctaveCorrection ==
  Corrected =>
    LET v == detected_bpm
        c == corrected_bpm
    IN /\ InRange(v) => c = v
       /\ (~InRange(v) /\ InRange(v \div 2)) => c = v \div 2
       /\ (~InRange(v) /\ ~InRange(v \div 2) /\ InRange(v * 2)) => c = v * 2
       /\ (bpm_range = <<65, 135>> /\ v = 160) => c = 80
       /\ (bpm_range = <<65, 135>> /\ v = 50) => c = 100

\* an estimate of 50 was doubled
C12_Witness ==
  Corrected /\ bpm_range = <<65, 135>> /\ detected_bpm = 50 /\ corrected_bpm = 100

\* the estimator reported 200 for a file under the range [65,135]
Detected200 ==
  detectCalls = 1 /\ detected_bpm = 200 /\ bpm_range = <<65, 135>>

\* C13: for an estimate of 200 under [65,135] the correction finds no value
\* in range, no BPM tag is written, and process_file goes on with the step
\* after the BPM step.
C13_Tempo200NotWritten ==
  /\ [](Detected200 => /\ bpmWrites = << >>
                       /\ Corrected => ~InRange(corrected_bpm))
  /\ [][(Detected200 /\ Corrected)
          => (bpc' = "line108" /\ bpm' = NoBpm /\ bpmWrites' = << >>)]_vars

\* the BPM step ran the estimator and ended without a value for the tag
NoValidBpm ==
  /\ bpc \in {"line108", "line132", "line141"}
  /\ detectCalls = 1
  /\ \/ ~Truthy(detected_bpm)
     \/ /\ ~InRange(detected_bpm)
        /\ ~InRange(detected_bpm \div 2)
        /\ ~InRange(detected_bpm * 2)

\* C14: every BPM value written to a tag lies in the acceptance range; when
\* the estimator fails or neither the estimate nor its halved or doubled
\* value is in range, nothing is written and the file is still distributed:
\* process_file does not end in its error handler.
C14_BpmWritesInRange ==
  /\ \A i \in DOMAIN bpmWrites : InRange(bpmWrites[i])
  /\ NoValidBpm => (bpmWrites = << >> /\ bpc # "line141")

\* the text has no space at either end
Trimmed(x) == x = << >> \/ (x[1] # " " /\ x[Len(x)] # " ")

\* x with the spaces at both ends put back is the piece of the stem from
\* position a to position b
TrimOf(x, a, b) ==
  /\ Trimmed(x)
  /\ \E i, j \in 0..(MaxStem + 1) :
       /\ a + i <= b + 1 - j
       /\ \A k \in a..(a + i - 1) : stem[k] = " "
       /\ \A k \in (b - j + 1)..b : stem[k] = " "
       /\ x = SubSeq(stem, a + i, b - j)

\* the separator sep stands at position i of the stem and nowhere before
FirstAt(sep, i) ==
  /\ i \in Occurrences(sep, stem)
  /\ \A j \in 1..(i - 1) : j \notin Occurrences(sep, stem)

\* the parse is the split of the stem at the first occurrence of sep
SplitAtFirst(sep) ==
  \E i \in DOMAIN stem :
    /\ FirstAt(sep, i)
    /\ TrimOf(parsed[1], 1, i - 1)
    /\ TrimOf(parsed[2], i + Len(sep), Len(stem))

\* C15: the parse splits the stem at the first " - " if there is one,
\* otherwise at the first "-", and trims both sides; a stem without a dash
\* gives neither field.  Only a field the tags did not give is assigned from
\* the parse, a field the tags gave is never replaced.
C15_FilenameFallback ==
  /\ [](npc = "line112" =>
          IF Occurrences(<<" ", "-", " ">>, stem) # {}
            THEN SplitAtFirst(<<" ", "-", " ">>)
          ELSE IF Occurrences(<<"-">>, stem) # {}
            THEN SplitAtFirst(<<"-">>)
          ELSE parsed = <<NoText, NoText>>)
  /\ [](npc = "line129" =>
          /\ artist = IF TruthyText(tagArtist) THEN tagArtist
                      ELSE IF TruthyText(parsed[1]) THEN parsed[1]
                      ELSE tagArtist
          /\ title = IF TruthyText(tagTitle) THEN tagTitle
                     ELSE IF TruthyText(parsed[2]) THEN parsed[2]
                     ELSE tagTitle)
  /\ [][/\ TruthyText(artist) => artist' = artist
        /\ TruthyText(title) => title' = title]_vars

\* the stem holds a bare dash before its " - "; the tags gave the artist,
\* the title was taken from the parse
C15_Witness ==
  /\ npc = "line129"
  /\ stem = <<"-", " ", "-", " ", "s">>
  /\ parsed = << <<"-">>, <<"s">> >>
  /\ tagArtist = <<"s", "s", "s">> /\ artist = tagArtist
  /\ tagTitle = NoText /\ title = <<"s">>

\* _get_output_filename has been called
OutputDone == npc \in {"line132", "line141"}

\* artist and title are both non-empty and longer than 2 characters, and
\* the artist holds no period
TagsNameable ==
  /\ artist \notin {NoText, << >>} /\ title \notin {NoText, << >>}
  /\ Len(artist) >= 3 /\ Len(title) >= 3
  /\ "." \notin Range(artist)

\* C16: the output filename is derived from "artist - title" exactly when
\* both are non-empty and longer than 2 characters and the artist holds no
\* period, in every other case from the original file name; in both cases
\* an output filename results.
C16_OutputNameSource ==
  OutputDone =>
    /\ TagsNameable <=> candidate = artist \o <<" ", "-", " ">> \o title
    /\ ~TagsNameable <=> candidate = stem \o file_suffix
    /\ output_filename # Raised


\* the last call of clean_filename had the examined input
ExaminedCall == cleanCalls > 0 /\ candidate = stem \o file_suffix

C18_GateReturns ==
  /\ <>(processCalls = 1)
  /\ [](wait_time <= MaxWait)
  /\ [](wpc \in {"line81", "line89"} =>
          (warnings = 1 <=> "stable" \notin seen))

C18_Witness ==
  /\ wpc = "line89"
  /\ processCalls = 1
  /\ warnings = 1
  /\ seen = {"absent", "zero", "grew", "raise"}


\* C19: in event mode, once stop() has stopped the watcher no event is
\* dispatched to a handler, running is not set to false while a handler is
\* in progress, and the process does not exit with a handler in progress
C19_GracefulDrain ==
  /\ [][(opc = "idle" /\ opc' = "line78") => ~stopped]_vars
  /\ [][(running /\ ~running') => opc \notin Handling]_vars
  /\ [](opc # "killed")


\* thread t is inside process_file
InProcessFile(t) ==
  pc[t] \in {"pf_resolve", "pf_copy", "pf_copy2", "pf_delete", "pf_net",
             "pf_ledger"}

\* C20: whatever fails while a candidate is processed, process_file returns
\* to its caller (the loop of process_all, or the handler), the list of the
\* cycle loses no candidate and the cycle ends only when the list is
\* exhausted, and in polling mode the next cycle can start after it
C20_FailuresContained ==
  /\ [][restarts' = restarts =>
          \A t \in Threads :
            (InProcessFile(t) /\ ~InProcessFile(t)') =>
              pc'[t] = IF t = Main THEN "pa_loop" ELSE "h_finally"]_vars
  /\ [][(restarts' = restarts /\ InProcessFile(Main)) =>
          audio_files' = audio_files]_vars
  /\ [][cycles' # cycles => audio_files = {}]_vars
  /\ []((~watch /\ pc[Main] = "sleep" /\ cycles < MaxCycles) =>
          ENABLED ProcessAllStart)

C20_Witness ==
  /\ ~watch
  /\ restarts = 0
  /\ cycles = 1
  /\ pc[Main] = "pa_loop"
  /\ drops = 0
  /\ stats.errors = 2


\* C21: in a dry run no step of the program changes the watched root, the
\* local or the network destination, the ledger file or the tags of a file;
\* only other programs create files
C21_DryRunTouchesNothing ==
  [][(dry_run /\ drops' = drops) =>
       UNCHANGED <<base, localDir, networkDir, ledgerFile, tagged>>]_vars

C21_Witness ==
  /\ dry_run
  /\ reAccepts
  /\ include_share
  /\ cycles = MaxCycles
  /\ stats.processed >= 2
  /\ {"in/sub/Tune.ogg", "in/sub/Song.mp3"} \subseteq base


\* a polling cycle or the initial pass is running on the main thread
CycleActive == pc[Main] = "pa_loop" \/ InProcessFile(Main)

\* an event handler invocation is running
HandlerActive(h) == pc[h] # "h_idle"

\* C22: one scheduling mode per lifetime: a handler runs only in event mode
\* and only while the main thread idles after its initial pass, so never
\* beside a cycle; the polling loop is never entered in event mode and the
\* watcher never started in polling mode
C22_OneSchedulingMode ==
  /\ \A h \in Handlers :
        HandlerActive(h) => (watch /\ pc[Main] = "watching" /\ ~CycleActive)
  /\ watch => pc[Main] # "sleep"
  /\ ~watch => pc[Main] # "watching"

C22_Witness ==
  /\ watch
  /\ cycles >= 1
  /\ \E h \in Handlers : InProcessFile(h)
  /\ pc[Main] = "watching"


CopyJustFailed(p) ==
  /\ ~watch
  /\ pc[Main] = "pf_ledger"
  /\ cur[Main] = p
  /\ ~copyOk[Main]
  /\ p \in base
  /\ restarts = 0
  /\ cycles + 1 < MaxCycles
  /\ disturbances = MaxDisturbances - 1

C27_NoCycleAfterSignal ==
  [][(mpc = "line95" /\ mpc' = "line98") => ~stopped]_vars


\* C28: _wait_for_file_ready returns before its timeout only when the two
\* latest sizes stat() returned for the file are equal and positive
C28_ReadyMeansStable ==
  (wpc \in {"line81", "line89"} /\ warnings = 0) =>
     /\ Len(samples) = 2
     /\ samples[1] = samples[2]
     /\ samples[2] > 0

C28_Witness ==
  /\ wpc = "line89"
  /\ warnings = 0
  /\ {"zero", "grew", "absent"} \subseteq seen
  /\ wait_time < MaxWait


IsPrefix(s, q) == Len(s) <= Len(q) /\ SubSeq(q, 1, Len(s)) = s

\* C30: the ledger file is append-only: no step of a cycle, of a handler,
\* of a failure or of a restart removes or rewrites a line, so no recorded
\* path is ever lost
C30_LedgerAppendOnly ==
  [][IsPrefix(ledgerFile, ledgerFile')]_vars

C30_Witness ==
  /\ Len(ledgerFile) >= 2
  /\ restarts >= 1
  /\ cycles >= 1
  /\ \E p \in Range(ledgerFile) : copyCount[p] = 0


\* C31: a BPM that the tags hold and that lies within the range is kept:
\* detect_bpm is not called and set_tags(bpm=...) is not called for the file
C31_ValidBpmKept ==
  (current_bpm # NoBpm /\ InRange(current_bpm)) =>
     /\ detectCalls = 0
     /\ bpmWrites = << >>
     /\ bpm = current_bpm

\* an mp3 file whose tag holds the upper limit went through _process_bpm
C31_Witness ==
  /\ bpc = "line132"
  /\ suffix = ".mp3"
  /\ ~dry_run
  /\ bpm_range = <<65, 135>>
  /\ current_bpm = 135
  /\ bpm = 135


\* a field of process_file was assigned from the file name
Inferred == artist # tagArtist \/ title # tagTitle

\* C32: outside a dry run clear_extra_tags is called for the file exactly
\* when the parse of the file name assigned the artist or the title (one of
\* them is enough), and is not called when it assigned neither
C32_StripTiedToInference ==
  (~dry_run /\ npc \in {"line129", "line132", "line141"}) =>
     (clears = 1 <=> Inferred)


\* get_tags returned (None, None, None): the tags could not be read
TagsUnreadable == tagArtist = NoText /\ tagTitle = NoText

\* C33: for a file whose tags cannot be read, the output filename is the
\* cleaned original file name and is not derived from "artist - title"
C33_UnreadableKeepsName ==
  (reAccepts /\ TagsUnreadable /\ OutputDone) =>
     /\ candidate = stem \o file_suffix
     /\ output_filename
          = clean_filename(stem \o file_suffix, Lower(file_suffix), reAccepts)


\* C34: the output filename ends with the suffix of the source file, in the
\* characters and case the source has it, and holds that suffix once: the
\* suffix is not part of the cleaned, title-cased name before it
C34_ExtensionUnchanged ==
  (reAccepts /\ OutputDone) =>
     /\ EndsWith(output_filename, file_suffix)
     /\ Cardinality(Occurrences(Lower(file_suffix), Lower(output_filename))) = 1


\* the suffix of the name is a supported extension in some mix of cases and
\* the name does not hold the sentinel
Candidate ==
  SuffixSupported(fname, supported_extensions) /\ ~HasSentinel(fname)

\* C35: the polling scan returns a path exactly when the event filter lets
\* it through, which is exactly when its suffix is a supported extension in
\* any mix of upper and lower case and its name does not hold the sentinel
C35_SameCandidates ==
  fpc = {"scan", "created", "modified"} =>
     /\ discovered >= 1 <=> Candidate
     /\ "created" \in admitted <=> Candidate
     /\ "modified" \in admitted <=> Candidate


\* the step is the head of process_all, Janitor included
JanitorStep == pc[Main] \in {"start", "sleep"} /\ pc'[Main] = "pa_loop"

\* C36: the Janitor deletes no file whose extension is one of the
\* configured supported extensions or .txt: such a file in an immediate
\* subdirectory is still there after the cleanup
C36_JanitorKeepsSupported ==
  [][JanitorStep =>
       \A p \in base :
          Suffix(p) \in supported_extensions \cup {".txt"} => p \in base']_vars


\* C37: the Janitor unlinks no file whose name holds the sentinel, at
\* whatever place of the name
C37_JanitorKeepsPartial ==
  [][\A f \in subFiles : HasSentinel(f) => f \in subFiles']_vars

\* C38: the Janitor removes no file that lies directly in the watched root,
\* the ledger file among them, and removes the subdirectory only when it
\* holds nothing after the cleanup
C38_JanitorStaysInSubdirs ==
  [][/\ rootFiles' = rootFiles
     /\ LedgerName \in rootFiles'
     /\ (subExists /\ ~subExists') => (subFiles = {} /\ ~nested)]_vars

\* the call unlinked a file, removed the emptied subdirectory and returned
C38_Witness ==
  /\ jpc = "done"
  /\ ~subExists
  /\ unlinked # {}
  /\ rootFiles = RootNames

\* C39: the list get_audio_files returns holds no path twice, so that
\* process_all, whose set of copied paths stays as it was loaded, hands a
\* file to process_file at most once in a cycle
C39_DiscoveredOnce ==
  "scan" \in fpc => discovered <= 1


\* a supported file of the watched root that no call of process_file has
\* copied or recorded in the ledger file
Unprocessed(p) ==
  /\ p \in base
  /\ Suffix(p) \in supported_extensions
  /\ copyCount[p] = 0
  /\ p \notin Range(ledgerFile)

\* C40: in event mode every supported file in the watched root is
\* eventually handed to process_file, the one that appears between the
\* initial scan and the start of the observer included, unless it leaves the
\* watched root or the environment has interfered as often as it can
C40_EventModeMissesNothing ==
  \A p \in Paths :
    (watch /\ ~dry_run /\ reAccepts /\ Unprocessed(p)) ~>
      \/ \E t \in Threads : cur[t] = p /\ InProcessFile(t)
      \/ p \notin base
      \/ disturbances = MaxDisturbances


====
